---- MODULE Spec2Model ----
(***************************************************************************)
(* Clara.ai retrieval core: the IndexedDB store (src/src/rag/store.ts),    *)
(* the chunker (src/src/rag/chunk.ts), vector helpers                      *)
(* (src/src/rag/vector.ts) and the incremental indexer that rag.ts calls   *)
(* through upsertNote / deleteNote.  The step order of the indexer         *)
(* (./indexer, imported by rag.ts) follows section 4.4 of the              *)
(* specification; every store access it makes goes through the operations  *)
(* of store.ts, which are modelled from their code.  The two searches of   *)
(* store.ts (vectorSearchTopK, searchMultipleQueries) and the queries of   *)
(* rag.ts (askWithMultiHop, askSimple) are modelled from their code and    *)
(* run on stores filled through putChunks and putVectors; the chat         *)
(* endpoint they post to is modelled from its handler (clampContexts) and  *)
(* providers/openai.ts (createChat).  chunkText is also followed one loop  *)
(* pass at a time, for any text and any chunk spec.  NotesPage             *)
(* (src/src/pages/NotesPage.tsx) is modelled as the caller of upsertNote   *)
(* and deleteNote: debounce timers, the ensureAllIndexed pass, the delete  *)
(* handler and askClara up to its retrieval call.                          *)
(***************************************************************************)
EXTENDS Integers, Sequences, FiniteSets, TLC

VARIABLES
    db,       \* the three object stores: notes_meta, chunks, vectors
    w,        \* one record per upsertNote call slot (position and locals)
    rd,       \* the vectorSearchTopK reader (position and what it has read)
    clock,    \* number of upsertNote calls begun so far (logical time)
    del,      \* the last deleteNote call whose promise a caller awaited
    putOrder, \* chunk ids of the vector rows a store client put, oldest first
    sr,       \* the last vectorSearchTopK / searchMultipleQueries call
    mh,       \* the ask call (position and locals)
    ck,       \* the chunkText call (position and locals)
    pg        \* NotesPage: notes, debounce timers, ensureAllIndexed, askClara

\* State of the callers of store.ts, rag.ts and chunk.ts other than the
\* indexer.
callers == <<del, putOrder, sr, mh, ck>>

vars == <<db, w, rd, clock, del, putOrder, sr, mh, ck, pg>>

(***************************************************************************)
(* Bounds of the model.                                                    *)
(***************************************************************************)
MaxCalls == 3

Notes == {"n1", "n2"}

\* The note that the searching and the overlapping runs work on.
OneNote == {"n1"}

Procs == {"w1", "w2"}

\* The call slot of single-flow use.
SingleProc == "w1"

\* Normalized title+body texts a note may have, as sequences of characters.
\* With the chunk spec below: aba -> ab, ba; abb -> ab, bb; aaa -> aa, aa.
Texts == { <<"a", "b", "a">>, <<"a", "b", "b">>, <<"a", "a", "a">> }

\* The texts of the runs that edit an indexed note: aba <-> abb differ in the
\* second chunk only; baa <-> aaa differ in the first chunk only, and aaa has
\* two chunks of the same content (baa -> ba, aa; aaa -> aa, aa).
DiffTexts == { <<"a", "b", "a">>, <<"a", "b", "b">>, <<"b", "a", "a">>, <<"a", "a", "a">> }

\* The texts of the runs that await their deleteNote calls.
DeleteTexts == { <<"a", "b", "a">>, <<"a", "a", "a">> }

Whitespace == {" "}

(***************************************************************************)
(* chunk.ts                                                                *)
(***************************************************************************)
\* DEFAULT_CHUNK_SPEC, scaled from 2000 / 250 (0 < overlapChars < maxChars).
DefaultMaxChars == 2

DefaultOverlapChars == 1

Min(a, b) == IF a < b THEN a ELSE b

Max(a, b) == IF a > b THEN a ELSE b

\* String.prototype.trim on a sequence of characters.
RECURSIVE TrimLeft(_)
TrimLeft(s) ==
    IF s # <<>> /\ Head(s) \in Whitespace THEN TrimLeft(Tail(s)) ELSE s

RECURSIVE TrimRight(_)
TrimRight(s) ==
    IF s # <<>> /\ s[Len(s)] \in Whitespace
    THEN TrimRight(SubSeq(s, 1, Len(s) - 1))
    ELSE s

\* Mutant: only leading whitespace is removed.
Trim_leftOnly(s) == TrimLeft(s)

Trim(s) == TrimRight(TrimLeft(s))

\* String.prototype.slice(start, end): 0-based start, exclusive end, a
\* negative index counting from the end of the string.
SliceIndex(i, len) == IF i < 0 THEN Max(len + i, 0) ELSE Min(i, len)

Slice(s, start, end) ==
    SubSeq(s, SliceIndex(start, Len(s)) + 1, SliceIndex(end, Len(s)))

\* Mutant: the window is one character wider than maxChars.
WindowEnd_oneMore(len, start, maxChars) == Min(len, start + maxChars + 1)

\* end = Math.min(cleaned.length, start + maxChars)
WindowEnd(len, start, maxChars) == Min(len, start + maxChars)

\* Mutant: the start goes back by twice the overlap.
NextStart_twiceOverlap(end, overlapChars) == Max(0, end - 2 * overlapChars)

\* start = Math.max(0, end - overlapChars)
NextStart(end, overlapChars) == Max(0, end - overlapChars)

\* The while loop of chunkText, from a given start position.
RECURSIVE ChunkLoop(_, _, _, _, _)
ChunkLoop(cleaned, start, maxChars, overlapChars, chunks) ==
    IF ~(start < Len(cleaned)) THEN chunks
    ELSE
        LET end    == WindowEnd(Len(cleaned), start, maxChars)
            slice  == Trim(Slice(cleaned, start, end))
            pushed == IF slice # <<>> THEN Append(chunks, slice) ELSE chunks
            next   == NextStart(end, overlapChars)
        IN  IF end >= Len(cleaned) THEN pushed
            ELSE IF next = end THEN pushed
            ELSE ChunkLoop(cleaned, next, maxChars, overlapChars, pushed)

chunkText(text, maxChars, overlapChars) ==
    LET cleaned == Trim(text)
    IN  IF cleaned = <<>> THEN <<>>
        ELSE ChunkLoop(cleaned, 0, maxChars, overlapChars, <<>>)

\* One chunkText call taken an iteration of its loop at a time.  windows
\* lists, per iteration, the window and its trimmed slice, pushed or not.
MaxTextLen == 4

\* No call that returns needs more iterations than the text has characters.
MaxIterations == MaxTextLen + 2

Alphabet == {"a", "b", " "}

ChunkTexts == UNION { [1..n -> Alphabet] : n \in 0..MaxTextLen }

\* ChunkSpec fields are numbers; nothing checks them.
MaxCharsValues == (0 - 1)..3

OverlapCharsValues == (0 - 1)..3

IdleChunk ==
    [pc |-> "idle", text |-> <<>>, cleaned |-> <<>>, maxChars |-> 0, overlapChars |-> 0,
     start |-> 0, chunks |-> <<>>, windows |-> <<>>]

\* cleaned = text.trim(); if (!cleaned) return []; start = 0
ChunkCall(text, maxChars, overlapChars) ==
    /\ ck.pc = "idle"
    /\ LET cleaned == Trim(text)
       IN  ck' = [IdleChunk EXCEPT !.pc = IF cleaned = <<>> THEN "returned" ELSE "loop",
                                   !.text = text, !.cleaned = cleaned,
                                   !.maxChars = maxChars, !.overlapChars = overlapChars]
    /\ UNCHANGED <<db, w, rd, clock, pg, del, putOrder, sr, mh>>

\* The loop condition and one pass of the loop body.
ChunkIterate ==
    /\ ck.pc = "loop"
    /\ Len(ck.windows) < MaxIterations
    /\ IF ~(ck.start < Len(ck.cleaned))
       THEN ck' = [ck EXCEPT !.pc = "returned"]
       ELSE LET end    == WindowEnd(Len(ck.cleaned), ck.start, ck.maxChars)
                slice  == Trim(Slice(ck.cleaned, ck.start, end))
                pushed == IF slice # <<>> THEN Append(ck.chunks, slice) ELSE ck.chunks
                next   == NextStart(end, ck.overlapChars)
                seen   == Append(ck.windows,
                                 [start |-> ck.start, end |-> end, slice |-> slice])
            IN  IF end >= Len(ck.cleaned) \/ next = end
                THEN ck' = [ck EXCEPT !.pc = "returned", !.chunks = pushed,
                                      !.windows = seen]
                ELSE ck' = [ck EXCEPT !.start = next, !.chunks = pushed,
                                      !.windows = seen]
    /\ UNCHANGED <<db, w, rd, clock, pg, del, putOrder, sr, mh>>

\* SHA-256 hex digest: a collision-free function of the text, never the text.
sha256Hex(text) == <<"sha256", text>>

(***************************************************************************)
(* vector.ts                                                               *)
(***************************************************************************)
\* Numbers are fixed-point: One stands for 1.0 in a normalized vector, so
\* a dot product of two normalized vectors is in units of 1 / (One * One).
\* The three non-finite doubles are values outside the finite range, placed
\* so that Infinity is above and -Infinity and NaN below every finite value
\* (x >= y is false for a NaN x, as in the language).
One == 10

PosInf == 1000000

NegInf == 0 - 999999

NaN == 0 - 1000000

\* Number.isFinite
IsFinite(x) == x \notin {PosInf, NegInf, NaN}

Sign(x) == IF x > 0 THEN 1 ELSE IF x < 0 THEN 0 - 1 ELSE 0

\* x * y and x + y of IEEE-754 doubles.
FMul(x, y) ==
    IF x = NaN \/ y = NaN THEN NaN
    ELSE IF IsFinite(x) /\ IsFinite(y) THEN x * y
    ELSE IF x = 0 \/ y = 0 THEN NaN
    ELSE IF Sign(x) * Sign(y) > 0 THEN PosInf ELSE NegInf

FAdd(x, y) ==
    IF x = NaN \/ y = NaN THEN NaN
    ELSE IF IsFinite(x) /\ IsFinite(y) THEN x + y
    ELSE IF {x, y} = {PosInf, NegInf} THEN NaN
    ELSE IF IsFinite(x) THEN y ELSE x

RECURSIVE SumTo(_, _, _)
SumTo(a, b, n) ==
    IF n = 0 THEN 0 ELSE FAdd(SumTo(a, b, n - 1), FMul(a[n], b[n]))

dot(a, b) == SumTo(a, b, Min(Len(a), Len(b)))

\* Math.sqrt on the sums of squares the model produces (perfect squares).
Sqrt(s) ==
    IF s = PosInf THEN PosInf
    ELSE IF ~IsFinite(s) \/ s < 0 THEN NaN
    ELSE CHOOSE r \in 0..s : r * r = s

l2Norm(a) == Sqrt(dot(a, a))

normalize(a) ==
    LET n == l2Norm(a)
    IN  IF ~IsFinite(n) \/ n <= 0 THEN a
        ELSE [i \in 1..Len(a) |-> (a[i] * One) \div n]

cosineSimilarityNormalized(normA, normB) == dot(normA, normB)

(***************************************************************************)
(* store.ts: object stores are key -> row maps; a transaction commits all  *)
(* of its writes or none of them.                                          *)
(***************************************************************************)
EmptyDb == [notesMeta |-> <<>>, chunks |-> <<>>, vectors |-> <<>>]

TxOutcomes == {"complete", "abort"}

\* IDBObjectStore.put / delete on a key -> row map.
StorePut(table, key, row) ==
    [k \in DOMAIN table \cup {key} |-> IF k = key THEN row ELSE table[k]]

StoreDelete(table, keys) == [k \in DOMAIN table \ keys |-> table[k]]

RECURSIVE StorePutAll(_, _)
StorePutAll(table, rows) ==
    IF rows = {} THEN table
    ELSE LET r == CHOOSE x \in rows : TRUE
         IN  StorePutAll(StorePut(table, r.chunkId, r), rows \ {r})

\* tx(): the promise settles from the transaction's events; resolve is
\* wired to oncomplete, reject to onerror / onabort.  after is the state the
\* requests issued by fn produce; it becomes visible only on completion.
\* Mutant: the promise resolves as soon as fn has issued its requests.
tx_resolveEarly(before, after, outcome) ==
    [db |-> IF outcome = "complete" THEN after ELSE before, promise |-> "resolved"]

tx(before, after, outcome) ==
    IF outcome = "complete"
    THEN [db |-> after, promise |-> "resolved"]
    ELSE [db |-> before, promise |-> "rejected"]

\* Mutant: the metadata lookup misses the stored row.
getNoteMeta_neverFound(d, noteId) == <<>>

\* Results of get requests: a sequence holding the row, empty for undefined.
getNoteMeta(d, noteId) ==
    IF noteId \in DOMAIN d.notesMeta THEN <<d.notesMeta[noteId]>> ELSE <<>>

putNoteMeta(d, row, outcome) ==
    tx(d, [d EXCEPT !.notesMeta = StorePut(@, row.noteId, row)], outcome)

\* index by_noteId
getChunksByNoteId(d, noteId) ==
    { d.chunks[c] : c \in { k \in DOMAIN d.chunks : d.chunks[k].noteId = noteId } }

putChunks(d, rows, outcome) ==
    IF rows = {} THEN [db |-> d, promise |-> "resolved"]
    ELSE tx(d, [d EXCEPT !.chunks = StorePutAll(@, rows)], outcome)

\* Mutant: only the chunk rows are deleted, their vectors stay.
deleteChunks_chunksOnly(d, chunkIds, outcome) ==
    IF chunkIds = {} THEN [db |-> d, promise |-> "resolved"]
    ELSE tx(d, [d EXCEPT !.chunks = StoreDelete(@, chunkIds)], outcome)

\* Mutant: only the vectors are deleted, the chunk rows stay.
deleteChunks_vectorsOnly(d, chunkIds, outcome) ==
    IF chunkIds = {} THEN [db |-> d, promise |-> "resolved"]
    ELSE tx(d, [d EXCEPT !.vectors = StoreDelete(@, chunkIds)], outcome)

deleteChunks(d, chunkIds, outcome) ==
    IF chunkIds = {} THEN [db |-> d, promise |-> "resolved"]
    ELSE tx(d, [d EXCEPT !.chunks = StoreDelete(@, chunkIds),
                         !.vectors = StoreDelete(@, chunkIds)], outcome)

putVectors(d, rows, outcome) ==
    IF rows = {} THEN [db |-> d, promise |-> "resolved"]
    ELSE tx(d, [d EXCEPT !.vectors = StorePutAll(@, rows)], outcome)

\* Mutant: deleting a note that has no metadata row is an error.
deleteNote_rejectMissing(d, noteId, outcome) ==
    LET ids == { c.chunkId : c \in getChunksByNoteId(d, noteId) }
    IN  IF noteId \notin DOMAIN d.notesMeta
        THEN [db |-> d, promise |-> "rejected"]
        ELSE tx(d, [d EXCEPT !.chunks = StoreDelete(@, ids),
                            !.vectors = StoreDelete(@, ids),
                            !.notesMeta = StoreDelete(@, {noteId})], outcome)

deleteNote(d, noteId, outcome) ==
    LET chunkRows == getChunksByNoteId(d, noteId)
        ids == { c.chunkId : c \in chunkRows }
    IN  tx(d, [d EXCEPT !.chunks = StoreDelete(@, ids),
                        !.vectors = StoreDelete(@, ids),
                        !.notesMeta = StoreDelete(@, {noteId})], outcome)

getAllVectors(d) == d.vectors

getAllChunks(d) == d.chunks

\* Mutants: the vector lookup always hits / always misses.
getVectorById_alwaysFound(d, chunkId) == <<[chunkId |-> chunkId, vector |-> <<>>]>>

getVectorById_neverFound(d, chunkId) == <<>>

getVectorById(d, chunkId) ==
    IF chunkId \in DOMAIN d.vectors THEN <<d.vectors[chunkId]>> ELSE <<>>

(***************************************************************************)
(* store.ts: vectorSearchTopK and searchMultipleQueries.                   *)
(***************************************************************************)
\* Keys of the chunks and vectors stores are chunk id strings; getAll
\* resolves with the rows in ascending key order.  A chunk id is compared as
\* the string noteId, content hash, ordinal.
NoteRank(n) == IF n = "n1" THEN 1 ELSE 2

CharRank(c) == IF c = "a" THEN 1 ELSE IF c = "b" THEN 2 ELSE 0

KeyOf(chunkId) ==
    <<NoteRank(chunkId[1])>>
        \o [i \in 1..Len(chunkId[2][2]) |-> CharRank(chunkId[2][2][i])]
        \o (IF chunkId[3] = <<>> THEN <<>> ELSE <<0>> \o chunkId[3])

RECURSIVE SeqLess(_, _)
SeqLess(s, t) ==
    IF t = <<>> THEN FALSE
    ELSE IF s = <<>> THEN TRUE
    ELSE IF Head(s) # Head(t) THEN Head(s) < Head(t)
    ELSE SeqLess(Tail(s), Tail(t))

KeyLess(a, b) == SeqLess(KeyOf(a), KeyOf(b))

RECURSIVE Ascending(_)
Ascending(keys) ==
    IF keys = {} THEN <<>>
    ELSE LET m == CHOOSE k \in keys : \A j \in keys \ {k} : KeyLess(k, j)
         IN  <<m>> \o Ascending(keys \ {m})

\* The array a getAll request resolves with.
RowsOf(table) ==
    LET keys == Ascending(DOMAIN table)
    IN  [i \in 1..Len(keys) |-> table[keys[i]]]

\* Default of the optional argument minScore: 0.2.
DefaultMinScore == 20

\* Mutant: the sort puts an entry before the entries of the same score.
InsertSorted_beforeEqual(sorted, x) ==
    LET RECURSIVE Ins(_)
        Ins(s) == IF s = <<>> THEN <<x>>
                  ELSE IF Head(s).score > x.score THEN <<Head(s)>> \o Ins(Tail(s))
                  ELSE <<x>> \o s
    IN  Ins(sorted)

\* Array.prototype.sort((a, b) => b.score - a.score): descending by score,
\* stable, so entries of equal score keep their order.
RECURSIVE InsertSorted(_, _)
InsertSorted(sorted, x) ==
    IF sorted = <<>> THEN <<x>>
    ELSE IF Head(sorted).score >= x.score
         THEN <<Head(sorted)>> \o InsertSorted(Tail(sorted), x)
         ELSE <<x>> \o sorted

RECURSIVE SortByScore(_)
SortByScore(seq) ==
    IF seq = <<>> THEN <<>>
    ELSE InsertSorted(SortByScore(SubSeq(seq, 1, Len(seq) - 1)), seq[Len(seq)])

\* results.push({ chunkId, noteId, noteTitle, text, score })
RetrievedOf(chunk, score) ==
    [chunkId |-> chunk.chunkId, noteId |-> chunk.noteId,
     text |-> chunk.chunkText, score |-> score]

\* Mutant: the per-note count is never compared with maxPerNote.
WalkScored_noCap(scored, i, chunkById, k, maxPerNote, results, perNote) ==
    LET RECURSIVE W(_, _)
        W(j, res) ==
            IF j > Len(scored) \/ Len(res) >= k THEN res
            ELSE IF scored[j].chunkId \notin DOMAIN chunkById THEN W(j + 1, res)
            ELSE W(j + 1, Append(res, RetrievedOf(chunkById[scored[j].chunkId],
                                                  scored[j].score)))
    IN  W(i, results)

\* Mutant: a chunk skipped because of the per-note cap still uses up one of
\* the k places.
WalkScored_capCountsTowardK(scored, i, chunkById, k, maxPerNote, results, perNote) ==
    LET RECURSIVE W(_, _, _, _)
        W(j, res, per, used) ==
            IF j > Len(scored) \/ used >= k THEN res
            ELSE IF scored[j].chunkId \notin DOMAIN chunkById THEN W(j + 1, res, per, used)
            ELSE LET chunk == chunkById[scored[j].chunkId]
                     count == IF chunk.noteId \in DOMAIN per THEN per[chunk.noteId] ELSE 0
                 IN  IF count >= maxPerNote THEN W(j + 1, res, per, used + 1)
                     ELSE W(j + 1, Append(res, RetrievedOf(chunk, scored[j].score)),
                            StorePut(per, chunk.noteId, count + 1), used + 1)
    IN  W(i, results, perNote, Len(results))

\* The loop over the sorted candidates, from candidate i on: stop at k
\* results, skip a candidate without a chunk row, skip a candidate whose note
\* already has maxPerNote results.
RECURSIVE WalkScored(_, _, _, _, _, _, _)
WalkScored(scored, i, chunkById, k, maxPerNote, results, perNote) ==
    IF i > Len(scored) THEN results
    ELSE IF Len(results) >= k THEN results
    ELSE IF scored[i].chunkId \notin DOMAIN chunkById
         THEN WalkScored(scored, i + 1, chunkById, k, maxPerNote, results, perNote)
    ELSE LET chunk == chunkById[scored[i].chunkId]
             count == IF chunk.noteId \in DOMAIN perNote THEN perNote[chunk.noteId] ELSE 0
         IN  IF count >= maxPerNote
             THEN WalkScored(scored, i + 1, chunkById, k, maxPerNote, results, perNote)
             ELSE WalkScored(scored, i + 1, chunkById, k, maxPerNote,
                             Append(results, RetrievedOf(chunk, scored[i].score)),
                             StorePut(perNote, chunk.noteId, count + 1))

\* Mutant: the filter keeps every score that is not below minScore.
PassesFilter_noFiniteCheck(score, minScore) == score >= minScore

\* Number.isFinite(score) && score >= minScore
PassesFilter(score, minScore) == IsFinite(score) /\ score >= minScore

vectorSearchTopK(d, queryVectorNormalized, k, minScore, maxPerNote) ==
    LET vectors   == RowsOf(getAllVectors(d))
        chunkById == getAllChunks(d)
        mapped    == [i \in 1..Len(vectors) |->
                         [chunkId |-> vectors[i].chunkId,
                          score |-> cosineSimilarityNormalized(queryVectorNormalized,
                                                               vectors[i].vector)]]
        scored    == SortByScore(SelectSeq(mapped,
                                           LAMBDA x : PassesFilter(x.score, minScore)))
    IN  WalkScored(scored, 1, chunkById, k, maxPerNote, <<>>, <<>>)

\* chunkScores: a Map, kept as its entries in insertion order.
MapHas(m, key) == \E i \in 1..Len(m) : m[i].chunkId = key

MapGet(m, key) == m[CHOOSE i \in 1..Len(m) : m[i].chunkId = key].score

MapSet(m, key, score) ==
    IF MapHas(m, key)
    THEN [i \in 1..Len(m) |-> IF m[i].chunkId = key THEN [m[i] EXCEPT !.score = score]
                                                    ELSE m[i]]
    ELSE Append(m, [chunkId |-> key, score |-> score])

\* The body of the inner loop: one vector against one query vector.
ScoreAgainst(m, v, qVec, minScore) ==
    LET score == cosineSimilarityNormalized(qVec, v.vector)
    IN  IF PassesFilter(score, minScore)
        THEN LET existing == IF MapHas(m, v.chunkId) THEN MapGet(m, v.chunkId) ELSE 0
             IN  IF score > existing THEN MapSet(m, v.chunkId, score) ELSE m
        ELSE m

\* for (const qVec of queryVectorsNormalized) for (const v of vectors) ...
RECURSIVE ScoreLoop(_, _, _, _, _, _)
ScoreLoop(qs, vectors, qi, vi, minScore, m) ==
    IF qi > Len(qs) THEN m
    ELSE IF vi > Len(vectors) THEN ScoreLoop(qs, vectors, qi + 1, 1, minScore, m)
    ELSE ScoreLoop(qs, vectors, qi, vi + 1, minScore,
                   ScoreAgainst(m, vectors[vi], qs[qi], minScore))

searchMultipleQueries(d, queryVectorsNormalized, k, minScore, maxPerNote) ==
    IF Len(queryVectorsNormalized) = 0 THEN <<>>
    ELSE LET vectors     == RowsOf(getAllVectors(d))
             chunkById   == getAllChunks(d)
             chunkScores == ScoreLoop(queryVectorsNormalized, vectors, 1, 1, minScore, <<>>)
             scored      == SortByScore(chunkScores)
         IN  WalkScored(scored, 1, chunkById, k, maxPerNote, <<>>, <<>>)

(***************************************************************************)
(* Embedding provider (POST /api/embed): one vector per text, same order;  *)
(* a batch succeeds or fails as a whole.                                   *)
(***************************************************************************)
EmbedOutcomes == {"ok", "fail"}

ProviderEmbed(text) == IF text[1] = "a" THEN <<2, 0>> ELSE <<0, 3>>

\* Embedding batch size, scaled from 64.
EmbedBatchSize == 1

(***************************************************************************)
(* Incremental indexer (upsertNoteIndex / deleteNoteIndex), reached from   *)
(* rag.ts upsertNote / deleteNote.                                         *)
(***************************************************************************)
\* Mutant: the id is (noteId, contentHash) with no ordinal ever appended.
MakeChunkId_hashOnly(noteId, pieces, i) == <<noteId, sha256Hex(pieces[i]), <<>>>>

\* chunkId from (noteId, contentHash); a chunk whose content already occurred
\* earlier in the same note gets its ordinal appended.
MakeChunkId(noteId, pieces, i) ==
    IF \E j \in 1..(i - 1) : pieces[j] = pieces[i]
    THEN <<noteId, sha256Hex(pieces[i]), <<i - 1>>>>
    ELSE <<noteId, sha256Hex(pieces[i]), <<>>>>

BuildRows(noteId, text) ==
    LET pieces == chunkText(text, DefaultMaxChars, DefaultOverlapChars)
    IN  [i \in 1..Len(pieces) |->
            [chunkId    |-> MakeChunkId(noteId, pieces, i),
             noteId     |-> noteId,
             chunkText  |-> pieces[i],
             chunkIndex |-> i - 1,
             hash       |-> sha256Hex(pieces[i])]]

RowSet(rows) == { rows[i] : i \in 1..Len(rows) }

IdsOf(rows) == { rows[i].chunkId : i \in 1..Len(rows) }

VectorRowOf(row) ==
    [chunkId |-> row.chunkId, vector |-> normalize(ProviderEmbed(row.chunkText))]

NoResult == [indexed |-> FALSE, embedded |-> 0, totalChunks |-> 0]

IdleCall ==
    [pc |-> "idle", noteId |-> "", text |-> <<>>, rows |-> <<>>, oldIds |-> {},
     idx |-> 0, queue |-> <<>>, batch |-> <<>>, sent |-> <<>>, result |-> NoResult,
     error |-> "", metaBefore |-> <<>>]

Running(p) == w[p].pc \notin {"idle", "done", "failed"}

NoCallInFlight == \A p \in Procs : ~Running(p)

\* A call that has ended keeps its result; its locals are gone.
Ended(call, pc, result, n, t) ==
    [IdleCall EXCEPT !.pc = pc, !.result = result, !.noteId = n, !.text = t]

\* The call rejects with a ProviderFailure or a StorageFailure.
Fail(p, kind) ==
    [w EXCEPT ![p] = [Ended(w[p], "failed", NoResult, w[p].noteId, w[p].text)
                         EXCEPT !.error = kind]]

\* Steps 1-3: hash the text, read the stored metadata, return at once when
\* the hash matches, otherwise chunk the text.
UpsertBegin(p, n, t) ==
    /\ ~Running(p)
    /\ clock < MaxCalls
    /\ clock' = clock + 1
    /\ LET noteHash == sha256Hex(t)
           meta     == getNoteMeta(db, n)
           base     == [IdleCall EXCEPT !.noteId = n, !.text = t,
                                        !.metaBefore = getNoteMeta(db, n)]
       IN  IF meta # <<>> /\ meta[1].noteHash = noteHash
           THEN w' = [w EXCEPT ![p] = Ended(w[p], "done", NoResult, n, t)]
           ELSE w' = [w EXCEPT ![p] = [base EXCEPT !.pc = "getOld",
                                                   !.rows = BuildRows(n, t)]]
    /\ UNCHANGED <<db, rd, callers>>

\* Step 4 (read): the chunk ids stored for the note.
ReadOldChunks(p) ==
    /\ w[p].pc = "getOld"
    /\ w' = [w EXCEPT ![p].pc = "delete",
                      ![p].oldIds = { c.chunkId : c \in getChunksByNoteId(db, w[p].noteId) }]
    /\ UNCHANGED <<db, rd, clock, pg, callers>>

\* Step 4 (write): delete the stored chunk ids that are not in the new set.
DeleteStale(p, outcome) ==
    /\ w[p].pc = "delete"
    /\ LET r == deleteChunks(db, w[p].oldIds \ IdsOf(w[p].rows), outcome)
       IN  /\ db' = r.db
           /\ w' = IF r.promise # "resolved" THEN Fail(p, "StorageFailure")
                    ELSE [w EXCEPT ![p].pc = "put"]
    /\ UNCHANGED <<rd, clock, pg, callers>>

\* Step 5: upsert every chunk row of the new set.
PutRows(p, outcome) ==
    /\ w[p].pc = "put"
    /\ LET r == putChunks(db, RowSet(w[p].rows), outcome)
       IN  /\ db' = r.db
           /\ w' = IF r.promise # "resolved" THEN Fail(p, "StorageFailure")
                    ELSE [w EXCEPT ![p].pc = IF w[p].rows = <<>> THEN "putMeta" ELSE "check",
                                   ![p].idx = 1]
    /\ UNCHANGED <<rd, clock, pg, callers>>

\* Step 6: one getVectorById per new chunk; queue the chunks without a vector.
CheckVector(p) ==
    /\ w[p].pc = "check"
    /\ LET i     == w[p].idx
           found == getVectorById(db, w[p].rows[i].chunkId)
           q     == IF found = <<>> THEN Append(w[p].queue, i) ELSE w[p].queue
       IN  w' = [w EXCEPT ![p].queue = q,
                          ![p].idx = i + 1,
                          ![p].pc = IF i < Len(w[p].rows) THEN "check"
                                    ELSE IF q = <<>> THEN "putMeta"
                                    ELSE "embed"]
    /\ UNCHANGED <<db, rd, clock, pg, callers>>

\* Step 7 (request): send the next batch of queued chunks to the provider.
EmbedBatch(p, outcome) ==
    /\ w[p].pc = "embed"
    /\ LET batch == SubSeq(w[p].queue, 1, Min(EmbedBatchSize, Len(w[p].queue)))
       IN  w' = IF outcome # "ok" THEN Fail(p, "ProviderFailure")
                ELSE [w EXCEPT ![p].batch = batch,
                               ![p].sent = w[p].sent \o batch,
                               ![p].pc = "putVec"]
    /\ UNCHANGED <<db, rd, clock, pg, callers>>

\* Step 7 (store): normalize and store the vectors of the batch.
StoreBatch(p, outcome) ==
    /\ w[p].pc = "putVec"
    /\ LET n    == Len(w[p].batch)
           rest == SubSeq(w[p].queue, n + 1, Len(w[p].queue))
           rows == { VectorRowOf(w[p].rows[w[p].batch[k]]) : k \in 1..n }
           r    == putVectors(db, rows, outcome)
       IN  /\ db' = r.db
           /\ w' = IF r.promise # "resolved" THEN Fail(p, "StorageFailure")
                    ELSE [w EXCEPT ![p].queue = rest,
                                   ![p].batch = <<>>,
                                   ![p].pc = IF rest = <<>> THEN "putMeta" ELSE "embed"]
    /\ UNCHANGED <<rd, clock, pg, callers>>

\* Step 8: write the metadata row with the new hash and the time of indexing.
PutMeta(p, outcome) ==
    /\ w[p].pc = "putMeta"
    /\ LET row == [noteId |-> w[p].noteId, noteHash |-> sha256Hex(w[p].text),
                   lastIndexedAt |-> clock]
           r   == putNoteMeta(db, row, outcome)
       IN  /\ db' = r.db
           /\ w' = IF r.promise # "resolved" THEN Fail(p, "StorageFailure")
                    ELSE [w EXCEPT ![p] =
                             Ended(w[p], "done",
                                   [indexed |-> TRUE, embedded |-> Len(w[p].sent),
                                    totalChunks |-> Len(w[p].rows)],
                                   w[p].noteId, w[p].text)]
    /\ UNCHANGED <<rd, clock, pg, callers>>

\* rag.deleteNote -> deleteNoteIndex -> store.deleteNote, one transaction.
DeleteNoteCall(n, outcome) ==
    /\ db' = deleteNote(db, n, outcome).db
    /\ UNCHANGED <<w, rd, clock, callers>>

\* The same call with its promise awaited: the caller sees how it settled.
\* indexedBefore: the note had a metadata row or chunk rows when the call
\* began; again: the call before it, with no upsert between, deleted the
\* same note and resolved.
IdleDelete ==
    [noteId |-> "", promise |-> "", at |-> 0, indexedBefore |-> FALSE, again |-> FALSE]

DeleteNoteAwaited(n, outcome) ==
    /\ LET r == deleteNote(db, n, outcome)
       IN  /\ db' = r.db
           /\ del' = [noteId |-> n, promise |-> r.promise, at |-> clock,
                      indexedBefore |-> (getNoteMeta(db, n) # <<>>
                                            \/ getChunksByNoteId(db, n) # {}),
                      again |-> (del.noteId = n /\ del.at = clock
                                    /\ del.promise = "resolved")]
    /\ UNCHANGED <<w, rd, clock, ck, pg, putOrder, sr, mh>>

(***************************************************************************)
(* vectorSearchTopK as a reader: getAllVectors and getAllChunks are two    *)
(* transactions.                                                           *)
(***************************************************************************)
IdleReader == [pc |-> "idle", vectors |-> <<>>, chunks |-> <<>>, chunkIdsThen |-> {}]

SearchReadVectors ==
    /\ rd.pc = "idle"
    /\ rd' = [pc |-> "vectorsRead", vectors |-> getAllVectors(db), chunks |-> <<>>,
              chunkIdsThen |-> DOMAIN db.chunks]
    /\ UNCHANGED <<db, w, clock, pg, callers>>

SearchReadChunks ==
    /\ rd.pc = "vectorsRead"
    /\ rd' = [rd EXCEPT !.pc = "read", !.chunks = getAllChunks(db)]
    /\ UNCHANGED <<db, w, clock, pg, callers>>

SearchReturn ==
    /\ rd.pc = "read"
    /\ rd' = IdleReader
    /\ UNCHANGED <<db, w, clock, pg, callers>>

(***************************************************************************)
(* A client of the store that puts chunk rows and vector rows and then     *)
(* searches: the rows are those of two indexed notes, the vectors are      *)
(* normalized provider outputs.                                            *)
(***************************************************************************)
\* Chunk rows of note n1 with text aba (chunks ab, ba) and of note n2 with
\* text ab (chunk ab).
SearchRows ==
    RowSet(BuildRows("n1", <<"a", "b", "a">>)) \cup RowSet(BuildRows("n2", <<"a", "b">>))

\* Vectors the provider may answer with; 1e999 in its JSON parses to Infinity.
ProviderVectors == { <<2, 0>>, <<0, 3>>, <<3, 4>>, <<PosInf, 0>> }

StoredVectors == { normalize(v) : v \in ProviderVectors }

QueryVectors == { normalize(<<2, 0>>), normalize(<<0, 3>>) }

\* Lists of up to two query vectors.
QueryLists ==
    {<<>>} \cup { <<q>> : q \in QueryVectors }
           \cup { <<q1, q2>> : q1 \in QueryVectors, q2 \in QueryVectors }

Ks == 0..3

MinScores == {0, DefaultMinScore}

MaxPerNotes == 0..2

IdleSearch ==
    [pc |-> "idle", fn |-> "", queries |-> <<>>, k |-> 0, minScore |-> 0,
     maxPerNote |-> 0, result |-> <<>>]

\* The chunk rows of one note go in one putChunks call.
ClientPutChunks(n, outcome) ==
    /\ sr.pc = "idle" /\ mh.pc = "idle"
    /\ getChunksByNoteId(db, n) = {}
    /\ db' = putChunks(db, { r \in SearchRows : r.noteId = n }, outcome).db
    /\ UNCHANGED <<w, rd, clock, ck, pg, del, putOrder, sr, mh>>

ClientPutVector(chunkId, vector, outcome) ==
    /\ sr.pc = "idle" /\ mh.pc = "idle"
    /\ chunkId \notin DOMAIN db.vectors
    /\ LET r == putVectors(db, {[chunkId |-> chunkId, vector |-> vector]}, outcome)
       IN  /\ db' = r.db
           /\ putOrder' = IF r.promise = "resolved" THEN Append(putOrder, chunkId)
                          ELSE putOrder
    /\ UNCHANGED <<w, rd, clock, ck, pg, del, sr, mh>>

SearchTopK(q, k, minScore, maxPerNote) ==
    /\ sr.pc = "idle"
    /\ sr' = [pc |-> "done", fn |-> "vectorSearchTopK", queries |-> <<q>>, k |-> k,
              minScore |-> minScore, maxPerNote |-> maxPerNote,
              result |-> vectorSearchTopK(db, q, k, minScore, maxPerNote)]
    /\ UNCHANGED <<db, w, rd, clock, ck, pg, del, putOrder, mh>>

SearchMulti(qs, k, minScore, maxPerNote) ==
    /\ sr.pc = "idle"
    /\ sr' = [pc |-> "done", fn |-> "searchMultipleQueries", queries |-> qs, k |-> k,
              minScore |-> minScore, maxPerNote |-> maxPerNote,
              result |-> searchMultipleQueries(db, qs, k, minScore, maxPerNote)]
    /\ UNCHANGED <<db, w, rd, clock, ck, pg, del, putOrder, mh>>

(***************************************************************************)
(* rag.ts: askWithMultiHop, one step per await.                            *)
(***************************************************************************)
\* Pass 1: k 6, minScore 0.2, maxPerNote 3; pass 2: k 10, minScore 0.15,
\* maxPerNote 3; the final list is cut to 12; askSimple searches with k 10
\* and maxPerNote 4.  The counts are scaled to the five chunks of the stores
\* asked, keeping their order: pass-1 k < pass-2 k = askSimple k < final cut
\* < pass-1 k + pass-2 k, and the multi-hop cap below the askSimple cap.
Pass1K == 2

Pass1MinScore == 20

Pass2K == 3

Pass2MinScore == 15

MultiHopMaxPerNote == 2

TopRetrieved == 4

SimpleK == 3

SimpleMaxPerNote == 3

\* api/chat clampContexts: at most 10 contexts, 2500 characters of each,
\* 20000 characters in all (ten chunks of DEFAULT_CHUNK_SPEC.maxChars);
\* scaled with the counts above and with DefaultMaxChars.
maxContexts == 3

maxCharsPer == 3

maxTotalChars == 6

\* Chunk rows of note n1 with text abab (chunks ab, ba, ab) and of note n2
\* with text aba (chunks ab, ba).
AskRows ==
    RowSet(BuildRows("n1", <<"a", "b", "a", "b">>))
        \cup RowSet(BuildRows("n2", <<"a", "b", "a">>))

AskVectors == { normalize(v) : v \in { <<2, 0>>, <<0, 3>>, <<3, 4>> } }

\* Questions and concepts are texts the provider embeds.
Questions == { <<"a">>, <<"b">> }

ConceptLists == { <<>>, <<<<"a">>>>, <<<<"b">>>>, <<<<"a">>, <<"b">>>> }

\* POST /api/extract_concepts: a decodable OK response, a non-OK response, a
\* rejected fetch (network error, timeout), an OK response whose body is not
\* JSON.
ExtractOutcomes == {"ok", "nonOk", "networkError", "undecodable"}

ChatOutcomes == {"ok", "fail"}

\* The locals of one ask call; log lists the steps the call has taken,
\* chatCalls counts its POSTs to /api/chat, sent is the contexts of the
\* last one.
IdleAsk ==
    [pc |-> "idle", fn |-> "", question |-> <<>>, qVec |-> <<>>, pass1 |-> <<>>,
     extract |-> "", concepts |-> <<>>, conceptVecs |-> <<>>, ranPass2 |-> FALSE,
     pass2 |-> <<>>, merged |-> <<>>, top |-> <<>>, sent |-> <<>>, chatCalls |-> 0,
     answer |-> <<>>, retrieved |-> <<>>, failedAt |-> "", log |-> <<>>]

IdsIn(res) == { res[i].chunkId : i \in 1..Len(res) }

\* Mutant: a chunk found by both passes takes its pass-2 score.
MergePasses_pass2Wins(pass1Results, pass2Results) ==
    LET both == IdsIn(pass1Results) \cap IdsIn(pass2Results)
        p2   == [c \in IdsIn(pass2Results) |->
                    pass2Results[CHOOSE j \in 1..Len(pass2Results) :
                                     pass2Results[j].chunkId = c]]
    IN  [i \in 1..Len(pass1Results) |->
            IF pass1Results[i].chunkId \in both THEN p2[pass1Results[i].chunkId]
            ELSE pass1Results[i]]
        \o SelectSeq(pass2Results, LAMBDA r : r.chunkId \notin both)

\* allRetrieved = [...pass1Results]; then each pass-2 result whose chunkId
\* has not been seen is pushed.
RECURSIVE MergeLoop(_, _, _, _)
MergeLoop(pass2Results, j, seenChunks, allRetrieved) ==
    IF j > Len(pass2Results) THEN allRetrieved
    ELSE IF pass2Results[j].chunkId \in seenChunks
         THEN MergeLoop(pass2Results, j + 1, seenChunks, allRetrieved)
         ELSE MergeLoop(pass2Results, j + 1, seenChunks \cup {pass2Results[j].chunkId},
                        Append(allRetrieved, pass2Results[j]))

\* Mutant: every pass-2 result is pushed, seen or not.
MergePasses_concat(pass1Results, pass2Results) == pass1Results \o pass2Results

MergePasses(pass1Results, pass2Results) ==
    MergeLoop(pass2Results, 1, IdsIn(pass1Results), pass1Results)

\* Mutant: the merged list is cut without being sorted.
TopOf_unsorted(allRetrieved) ==
    SubSeq(allRetrieved, 1, Min(Len(allRetrieved), TopRetrieved))

\* allRetrieved.sort((a, b) => b.score - a.score); slice(0, 12)
TopOf(allRetrieved) ==
    LET sorted == SortByScore(allRetrieved)
    IN  SubSeq(sorted, 1, Min(Len(sorted), TopRetrieved))

AskFail(at) == [mh EXCEPT !.pc = "failed", !.failedAt = at]

\* The store asked: the chunk rows of a note go in one putChunks call, the
\* vector rows in one putVectors call each, all before the question.
AskPutChunks(n, outcome) ==
    /\ mh.pc = "idle"
    /\ getChunksByNoteId(db, n) = {}
    /\ db' = putChunks(db, { r \in AskRows : r.noteId = n }, outcome).db
    /\ UNCHANGED <<w, rd, clock, ck, pg, del, putOrder, sr, mh>>

AskPutVector(chunkId, vector, outcome) ==
    /\ mh.pc = "idle"
    /\ chunkId \notin DOMAIN db.vectors
    /\ db' = putVectors(db, {[chunkId |-> chunkId, vector |-> vector]}, outcome).db
    /\ UNCHANGED <<w, rd, clock, ck, pg, del, putOrder, sr, mh>>

\* contexts = list.map((r) => ({ chunkId, noteId, noteTitle, text }))
ContextsOf(list) ==
    [i \in 1..Len(list) |->
        [chunkId |-> list[i].chunkId, noteId |-> list[i].noteId, text |-> list[i].text]]

\* api/chat clampContexts: the first maxContexts contexts, each text cut to
\* maxCharsPer, stopping before the total passes maxTotalChars; contexts with
\* an empty chunkId, noteId or text are dropped.
RECURSIVE ClampLoop(_, _, _, _)
ClampLoop(contexts, i, total, out) ==
    IF i > Min(Len(contexts), maxContexts) THEN out
    ELSE LET text      == SubSeq(contexts[i].text, 1, Min(Len(contexts[i].text), maxCharsPer))
             nextTotal == total + Len(text)
         IN  IF nextTotal > maxTotalChars THEN out
             ELSE ClampLoop(contexts, i + 1, nextTotal,
                            Append(out, [contexts[i] EXCEPT !.text = text]))

clampContexts(contexts) ==
    SelectSeq(ClampLoop(contexts, 1, 0, <<>>),
              LAMBDA c : c.chunkId # <<>> /\ c.noteId # "" /\ c.text # <<>>)

\* providers/openai createChat: every response it builds carries
\* usedChunkIds: contexts.map((c) => c.chunkId); the citations are the
\* generator's: here none, or the first context.
createChat(contexts, cite) ==
    [citations    |-> IF cite /\ contexts # <<>> THEN <<contexts[1].chunkId>> ELSE <<>>,
     usedChunkIds |-> [i \in 1..Len(contexts) |-> contexts[i].chunkId]]

\* POST /api/chat: the handler clamps the contexts and answers with what
\* createChat returns.
ChatHandler(contexts, cite) == createChat(clampContexts(contexts), cite)

\* Mutant: a failed chat request is sent once more before the call rejects.
ChatReturn_retry(list, outcome, cite) ==
    IF outcome # "ok"
    THEN [AskFail("chat") EXCEPT !.sent = ContextsOf(list), !.chatCalls = @ + 2,
                                 !.log = @ \o <<"chat", "chat">>]
    ELSE [mh EXCEPT !.pc = "done", !.sent = ContextsOf(list), !.chatCalls = @ + 1,
                    !.log = Append(@, "chat"),
                    !.answer = <<ChatHandler(ContextsOf(list), cite)>>,
                    !.retrieved = [i \in 1..Len(list) |->
                                      [chunkId |-> list[i].chunkId,
                                       noteId |-> list[i].noteId,
                                       score |-> list[i].score]]]

\* out = await chat(question, contexts, history), then the return: the
\* answer's citations and usedChunkIds are those of the response, retrieved
\* is the list the contexts were made from.  A non-OK response rejects the call.
ChatReturn(list, outcome, cite) ==
    IF outcome # "ok"
    THEN [AskFail("chat") EXCEPT !.sent = ContextsOf(list), !.chatCalls = @ + 1,
                                 !.log = Append(@, "chat")]
    ELSE [mh EXCEPT !.pc = "done", !.sent = ContextsOf(list), !.chatCalls = @ + 1,
                    !.log = Append(@, "chat"),
                    !.answer = <<ChatHandler(ContextsOf(list), cite)>>,
                    !.retrieved = [i \in 1..Len(list) |->
                                      [chunkId |-> list[i].chunkId,
                                       noteId |-> list[i].noteId,
                                       score |-> list[i].score]]]

AskBegin(question) ==
    /\ mh.pc = "idle"
    /\ mh' = [IdleAsk EXCEPT !.pc = "embedQuestion", !.fn = "askWithMultiHop",
                             !.question = question]
    /\ UNCHANGED <<db, w, rd, clock, ck, pg, del, putOrder, sr>>

\* qVec = normalize(await embedOne(question))
AskEmbedQuestion(outcome) ==
    /\ mh.pc = "embedQuestion"
    /\ mh' = IF outcome # "ok"
             THEN [AskFail("embedOne") EXCEPT !.log = Append(@, "embedOne")]
             ELSE [mh EXCEPT !.pc = "pass1", !.log = Append(@, "embedOne"),
                             !.qVec = normalize(ProviderEmbed(mh.question))]
    /\ UNCHANGED <<db, w, rd, clock, ck, pg, del, putOrder, sr>>

\* Mutant: pass 1 deletes the rows of the chunks it did not return.
AskPass1_prunes ==
    LET found == vectorSearchTopK(db, mh.qVec, Pass1K, Pass1MinScore, MultiHopMaxPerNote)
    IN  /\ mh.pc = "pass1"
        /\ mh' = [mh EXCEPT !.pc = "extract", !.log = Append(@, "vectorSearchTopK"),
                            !.pass1 = found]
        /\ db' = deleteChunks(db, DOMAIN db.chunks \ IdsIn(found), "complete").db
        /\ UNCHANGED <<w, rd, clock, ck, pg, del, putOrder, sr>>

AskPass1 ==
    /\ mh.pc = "pass1"
    /\ mh' = [mh EXCEPT !.pc = "extract", !.log = Append(@, "vectorSearchTopK"),
                        !.pass1 = vectorSearchTopK(db, mh.qVec, Pass1K, Pass1MinScore,
                                                   MultiHopMaxPerNote)]
    /\ UNCHANGED <<db, w, rd, clock, ck, pg, del, putOrder, sr>>

\* Mutant: the concept embedding and pass 2 run with no concepts too.
AskExtract_alwaysExpand(outcome, found) ==
    /\ mh.pc = "extract"
    /\ outcome # "ok" => found = <<>>
    /\ mh' = IF outcome \in {"networkError", "undecodable"}
             THEN [AskFail("extractKeyConcepts") EXCEPT
                       !.extract = outcome, !.log = Append(@, "extractKeyConcepts")]
             ELSE [mh EXCEPT !.pc = "embedConcepts", !.extract = outcome,
                             !.concepts = IF outcome = "nonOk" THEN <<>> ELSE found,
                             !.log = Append(@, "extractKeyConcepts")]
    /\ UNCHANGED <<db, w, rd, clock, ck, pg, del, putOrder, sr>>

\* extractKeyConcepts: a non-OK response gives []; a rejected fetch and a
\* rejected resp.json() reject the call, which nothing catches.  With no
\* concepts the list is sorted and cut and the chat request comes next.
AskExtract(outcome, found) ==
    /\ mh.pc = "extract"
    /\ outcome # "ok" => found = <<>>
    /\ mh' = IF outcome \in {"networkError", "undecodable"}
             THEN [AskFail("extractKeyConcepts") EXCEPT
                       !.extract = outcome, !.log = Append(@, "extractKeyConcepts")]
             ELSE LET concepts == IF outcome = "nonOk" THEN <<>> ELSE found
                  IN  IF Len(concepts) > 0
                      THEN [mh EXCEPT !.pc = "embedConcepts", !.extract = outcome,
                                      !.concepts = concepts,
                                      !.log = Append(@, "extractKeyConcepts")]
                      ELSE [mh EXCEPT !.pc = "chat", !.extract = outcome,
                                      !.concepts = concepts,
                                      !.merged = mh.pass1, !.top = TopOf(mh.pass1),
                                      !.log = @ \o <<"extractKeyConcepts", "mergeAndRerank">>]
    /\ UNCHANGED <<db, w, rd, clock, ck, pg, del, putOrder, sr>>

\* conceptVectors = await embedMany(concepts), each normalized
AskEmbedConcepts(outcome) ==
    /\ mh.pc = "embedConcepts"
    /\ mh' = IF outcome # "ok"
             THEN [AskFail("embedMany") EXCEPT !.log = Append(@, "embedMany")]
             ELSE [mh EXCEPT !.pc = "pass2", !.log = Append(@, "embedMany"),
                             !.conceptVecs = [i \in 1..Len(mh.concepts) |->
                                                 normalize(ProviderEmbed(mh.concepts[i]))]]
    /\ UNCHANGED <<db, w, rd, clock, ck, pg, del, putOrder, sr>>

\* Pass 2, the merge, the sort and the cut.
AskPass2 ==
    /\ mh.pc = "pass2"
    /\ LET pass2Results == searchMultipleQueries(db, <<mh.qVec>> \o mh.conceptVecs,
                                                 Pass2K, Pass2MinScore, MultiHopMaxPerNote)
           allRetrieved == MergePasses(mh.pass1, pass2Results)
       IN  mh' = [mh EXCEPT !.pc = "chat", !.ranPass2 = TRUE, !.pass2 = pass2Results,
                           !.merged = allRetrieved, !.top = TopOf(allRetrieved),
                           !.log = @ \o <<"searchMultipleQueries", "mergeAndRerank">>]
    /\ UNCHANGED <<db, w, rd, clock, ck, pg, del, putOrder, sr>>

\* out = await chat(question, contexts, history); the contexts are the
\* chunks of the cut list.
AskChat(outcome, cite) ==
    /\ mh.pc = "chat"
    /\ mh' = ChatReturn(mh.top, outcome, cite)
    /\ UNCHANGED <<db, w, rd, clock, ck, pg, del, putOrder, sr>>

AskStep ==
    \/ \E o \in EmbedOutcomes : AskEmbedQuestion(o)
    \/ AskPass1
    \/ \E o \in ExtractOutcomes, c \in ConceptLists : AskExtract(o, c)
    \/ \E o \in EmbedOutcomes : AskEmbedConcepts(o)
    \/ AskPass2
    \/ \E o \in ChatOutcomes, cite \in BOOLEAN : AskChat(o, cite)

(***************************************************************************)
(* rag.ts: askSimple, one step per await.                                  *)
(***************************************************************************)
SimpleBegin(question) ==
    /\ mh.pc = "idle"
    /\ mh' = [IdleAsk EXCEPT !.pc = "simpleEmbed", !.fn = "askSimple",
                             !.question = question]
    /\ UNCHANGED <<db, w, rd, clock, ck, pg, del, putOrder, sr>>

SimpleEmbedQuestion(outcome) ==
    /\ mh.pc = "simpleEmbed"
    /\ mh' = IF outcome # "ok"
             THEN [AskFail("embedOne") EXCEPT !.log = Append(@, "embedOne")]
             ELSE [mh EXCEPT !.pc = "simpleSearch", !.log = Append(@, "embedOne"),
                             !.qVec = normalize(ProviderEmbed(mh.question))]
    /\ UNCHANGED <<db, w, rd, clock, ck, pg, del, putOrder, sr>>

\* retrieved = await vectorSearchTopK({ qVec, k: 10, minScore: 0.2, maxPerNote: 4 })
SimpleRetrieved(d, qVec) ==
    vectorSearchTopK(d, qVec, SimpleK, DefaultMinScore, SimpleMaxPerNote)

SimpleSearch ==
    /\ mh.pc = "simpleSearch"
    /\ mh' = [mh EXCEPT !.pc = "simpleChat", !.log = Append(@, "vectorSearchTopK"),
                        !.top = SimpleRetrieved(db, mh.qVec)]
    /\ UNCHANGED <<db, w, rd, clock, ck, pg, del, putOrder, sr>>

SimpleChat(outcome, cite) ==
    /\ mh.pc = "simpleChat"
    /\ mh' = ChatReturn(mh.top, outcome, cite)
    /\ UNCHANGED <<db, w, rd, clock, ck, pg, del, putOrder, sr>>

SimpleStep ==
    \/ \E o \in EmbedOutcomes : SimpleEmbedQuestion(o)
    \/ SimpleSearch
    \/ \E o \in ChatOutcomes, cite \in BOOLEAN : SimpleChat(o, cite)

(***************************************************************************)
(* NotesPage: the callers of the index.  Every note has its own debounce   *)
(* timer (scheduleIndex), ensureAllIndexed walks the notes of the render   *)
(* it was called from, handleDeleteNote starts a delete it does not await, *)
(* and askClara awaits ensureAllIndexed before it retrieves.  owner tells  *)
(* which caller awaits the upsertNote call of a slot.                      *)
(***************************************************************************)
\* The text of the note when the page loads, and the texts an update of the
\* note may leave it with (an update need not change the indexed text).
PageText == <<"a", "b", "a">>

PageTexts == {PageText}

\* The page starts at most this many upsertNote calls in a run.
MaxPageCalls == 2

\* The notes array of a render, in order, as ensureAllIndexed captures it.
NotesOf(page) ==
    IF "n1" \in page.notes THEN <<[noteId |-> "n1", text |-> page.content["n1"]]>>
                           ELSE <<>>

IdlePage ==
    [notes |-> OneNote, content |-> [n \in OneNote |-> PageText],
     deleted |-> {}, deleteRejected |-> {}, timers |-> [n \in OneNote |-> <<>>],
     owner |-> [p \in Procs |-> "none"],
     isIndexingAll |-> FALSE, todo |-> <<>>, passFor |-> "", passFailed |-> FALSE,
     mounted |-> FALSE, ask |-> "idle"]

\* The call slot a new rag.upsertNote call of the page is followed in.
FreeSlot(p) ==
    /\ pg.owner[p] = "none"
    /\ (p = "w2" => pg.owner["w1"] # "none")

\* scheduleIndex: the timer of the note is cleared and set again; the
\* callback keeps the note it was given.
scheduleIndex(page, n, t) ==
    [page EXCEPT !.timers[n] = <<t>>]

\* handleNoteUpdate: the note is changed and its indexing scheduled.
handleNoteUpdate(n, t) ==
    /\ n \in pg.notes
    /\ pg' = scheduleIndex([pg EXCEPT !.content[n] = t], n, t)
    /\ UNCHANGED <<db, w, rd, clock, callers>>

\* The timer of a note fires: the callback calls rag.upsertNote with the
\* note it kept.  Nothing looks at calls already in flight or at whether
\* the note still exists.
TimerFire(p, n) ==
    /\ pg.timers[n] # <<>>
    /\ FreeSlot(p)
    /\ clock < MaxPageCalls
    /\ UpsertBegin(p, n, pg.timers[n][1])
    /\ pg' = [pg EXCEPT !.timers[n] = <<>>, !.owner[p] = "timer"]

\* The callback's await returns or throws; either way the callback ends.
TimerCallEnd(p) ==
    /\ pg.owner[p] = "timer"
    /\ w[p].pc \in {"done", "failed"}
    /\ pg' = [pg EXCEPT !.owner[p] = "none"]
    /\ UNCHANGED <<db, w, rd, clock, callers>>

\* handleDeleteNote: the note leaves the notes array and rag.deleteNote is
\* called without await, its failure ignored.  The timer of the note stays.
\* deleted and deleteRejected keep what happened, for the properties.
handleDeleteNote(n, outcome) ==
    /\ n \in pg.notes
    /\ DeleteNoteCall(n, outcome)
    /\ pg' = [pg EXCEPT !.notes = @ \ {n}, !.deleted = @ \cup {n},
                        !.deleteRejected =
                            IF deleteNote(db, n, outcome).promise = "rejected"
                                THEN @ \cup {n} ELSE @]

\* ensureAllIndexed up to its loop: a call made while a pass is in progress
\* returns at once.
ensureAllIndexed(page, caller) ==
    IF page.isIndexingAll
        THEN page
        ELSE [page EXCEPT !.isIndexingAll = TRUE, !.todo = NotesOf(page),
                          !.passFor = caller, !.passFailed = FALSE]

\* The effect that runs once the notes are loaded.
MountEffect ==
    /\ ~pg.mounted
    /\ pg' = [ensureAllIndexed(pg, "mount") EXCEPT !.mounted = TRUE]
    /\ UNCHANGED <<db, w, rd, clock, callers>>

\* askClara up to its first await that does not return at once: when
\* ensureAllIndexed returns at once, askClara goes on to rag.ask.  One
\* askClara call is followed at a time.
askClara ==
    /\ pg.ask = "idle"
    /\ pg' = [ensureAllIndexed(pg, "askClara") EXCEPT
                 !.ask = IF pg.isIndexingAll THEN "retrieving" ELSE "ensuring"]
    /\ UNCHANGED <<db, w, rd, clock, callers>>

\* The end of a pass (finally): the flag is cleared, and an askClara that
\* awaited the pass goes on to rag.ask.
EndPass(page, failed) ==
    [page EXCEPT !.isIndexingAll = FALSE, !.todo = <<>>, !.passFor = "",
                 !.passFailed = failed,
                 !.ask = IF page.passFor = "askClara" THEN "retrieving" ELSE @]

\* The loop of ensureAllIndexed calls rag.upsertNote for its next note.
EnsureLoopUpsert(p) ==
    /\ pg.isIndexingAll
    /\ pg.todo # <<>>
    /\ \A q \in Procs : pg.owner[q] # "pass"
    /\ FreeSlot(p)
    /\ clock < MaxPageCalls
    /\ UpsertBegin(p, pg.todo[1].noteId, pg.todo[1].text)
    /\ pg' = [pg EXCEPT !.owner[p] = "pass"]

\* The awaited call ends: the loop goes on, or the catch ends the pass.
EnsureLoopCallEnd(p) ==
    /\ pg.owner[p] = "pass"
    /\ w[p].pc \in {"done", "failed"}
    /\ pg' = IF w[p].pc = "done"
                 THEN [pg EXCEPT !.owner[p] = "none", !.todo = Tail(@)]
                 ELSE EndPass([pg EXCEPT !.owner[p] = "none"], TRUE)
    /\ UNCHANGED <<db, w, rd, clock, callers>>

\* The loop has no note left.
EnsureEnd ==
    /\ pg.isIndexingAll
    /\ pg.todo = <<>>
    /\ \A q \in Procs : pg.owner[q] # "pass"
    /\ pg' = EndPass(pg, FALSE)
    /\ UNCHANGED <<db, w, rd, clock, callers>>

\* rag.ask has settled and askClara ends.
AskClaraEnd ==
    /\ pg.ask = "retrieving"
    /\ pg' = [pg EXCEPT !.ask = "idle"]
    /\ UNCHANGED <<db, w, rd, clock, callers>>

(***************************************************************************)
(* Specifications.  Spec is the single-flow use section 5 of the           *)
(* specification assumes: one index-mutating call at a time, each begun    *)
(* after the one before it has ended.  SpecSearch adds a search running    *)
(* alongside the single writer.  SpecInterleaved lets upsertNote and       *)
(* deleteNote calls overlap, as the un-awaited calls of NotesPage do.      *)
(* SpecPage starts the calls from the handlers of NotesPage themselves.    *)
(***************************************************************************)
Init ==
    /\ db = EmptyDb
    /\ w = [p \in Procs |-> IdleCall]
    /\ rd = IdleReader
    /\ clock = 0
    /\ del = IdleDelete
    /\ putOrder = <<>>
    /\ sr = IdleSearch
    /\ mh = IdleAsk
    /\ ck = IdleChunk
    /\ pg = IdlePage

WriterStep(p) ==
    \/ ReadOldChunks(p)
    \/ \E o \in TxOutcomes : DeleteStale(p, o)
    \/ \E o \in TxOutcomes : PutRows(p, o)
    \/ CheckVector(p)
    \/ \E o \in EmbedOutcomes : EmbedBatch(p, o)
    \/ \E o \in TxOutcomes : StoreBatch(p, o)
    \/ \E o \in TxOutcomes : PutMeta(p, o)

ReaderStep == SearchReadVectors \/ SearchReadChunks \/ SearchReturn

Next ==
    \/ \E n \in Notes, t \in Texts : NoCallInFlight /\ UpsertBegin(SingleProc, n, t) /\ pg' = pg
    \/ \E n \in Notes, o \in TxOutcomes : NoCallInFlight /\ DeleteNoteCall(n, o) /\ pg' = pg
    \/ WriterStep(SingleProc)

Spec == Init /\ [][Next]_vars

NextSearch ==
    \/ \E n \in OneNote, t \in Texts : NoCallInFlight /\ UpsertBegin(SingleProc, n, t) /\ pg' = pg
    \/ \E n \in OneNote, o \in TxOutcomes : NoCallInFlight /\ DeleteNoteCall(n, o) /\ pg' = pg
    \/ WriterStep(SingleProc)
    \/ ReaderStep

SpecSearch == Init /\ [][NextSearch]_vars

NextInterleaved ==
    \/ \E p \in Procs, n \in OneNote, t \in Texts : UpsertBegin(p, n, t) /\ pg' = pg
    \/ \E n \in OneNote, o \in TxOutcomes : DeleteNoteCall(n, o) /\ pg' = pg
    \/ \E p \in Procs : WriterStep(p)

SpecInterleaved == Init /\ [][NextInterleaved]_vars

\* The store client: rows are put, then searches run on what is stored.
NextTopK ==
    \/ \E n \in Notes, o \in TxOutcomes : ClientPutChunks(n, o)
    \/ \E row \in SearchRows, v \in StoredVectors, o \in TxOutcomes :
           ClientPutVector(row.chunkId, v, o)
    \/ \E q \in QueryVectors, k \in Ks, m \in MinScores, c \in MaxPerNotes :
           SearchTopK(q, k, m, c)
    \/ \E qs \in QueryLists, k \in Ks, m \in MinScores, c \in MaxPerNotes :
           SearchMulti(qs, k, m, c)

SpecTopK == Init /\ [][NextTopK]_vars

\* A question asked, by either entry point, of a store filled before it.
NextAsk ==
    \/ \E n \in Notes, o \in TxOutcomes : AskPutChunks(n, o)
    \/ \E row \in AskRows, v \in AskVectors, o \in TxOutcomes :
           AskPutVector(row.chunkId, v, o)
    \/ \E q \in Questions : AskBegin(q)
    \/ AskStep
    \/ \E q \in Questions : SimpleBegin(q)
    \/ SimpleStep

SpecAsk == Init /\ [][NextAsk]_vars

\* Single-flow edits of one note: each upsertNote call carries the note's
\* current text.
NextDiff ==
    \/ \E n \in OneNote, t \in DiffTexts : NoCallInFlight /\ UpsertBegin(SingleProc, n, t) /\ pg' = pg
    \/ WriterStep(SingleProc)

SpecDiff == Init /\ [][NextDiff]_vars

\* Single-flow use with every deleteNote call awaited.
NextDelete ==
    \/ \E n \in Notes, t \in DeleteTexts : NoCallInFlight /\ UpsertBegin(SingleProc, n, t) /\ pg' = pg
    \/ \E n \in Notes, o \in TxOutcomes : NoCallInFlight /\ DeleteNoteAwaited(n, o)
    \/ WriterStep(SingleProc)

SpecDelete == Init /\ [][NextDelete]_vars

\* chunkText called with any text and any chunk spec.
NextChunk ==
    \/ \E text \in ChunkTexts, m \in MaxCharsValues, o \in OverlapCharsValues :
           ChunkCall(text, m, o)
    \/ ChunkIterate

SpecChunk == Init /\ [][NextChunk]_vars

\* NotesPage with one note: edits, timers, the on-load pass, a delete and
\* questions, in any order the event loop allows.
NextPage ==
    \/ \E n \in OneNote, t \in PageTexts : handleNoteUpdate(n, t)
    \/ \E p \in Procs, n \in OneNote : TimerFire(p, n)
    \/ \E p \in Procs : TimerCallEnd(p)
    \/ \E n \in OneNote, o \in TxOutcomes : handleDeleteNote(n, o)
    \/ MountEffect
    \/ askClara
    \/ \E p \in Procs : EnsureLoopUpsert(p)
    \/ \E p \in Procs : EnsureLoopCallEnd(p)
    \/ EnsureEnd
    \/ AskClaraEnd
    \/ \E p \in Procs : WriterStep(p)

SpecPage == Init /\ [][NextPage]_vars

(***************************************************************************)
(* Properties.                                                             *)
(***************************************************************************)
ChunkIdsOf(d, n) == { c.chunkId : c \in getChunksByNoteId(d, n) }

\* The note id a chunk id was derived from.
NoteOfId(chunkId) == chunkId[1]

StoredHashIs(n, t) ==
    n \in DOMAIN db.notesMeta /\ db.notesMeta[n].noteHash = sha256Hex(t)

\* C1: an upsertNote call for a note whose stored noteHash equals the hash
\* of the text it is given ends at once with indexed = FALSE: it sends no
\* embedding request and the store is the same before and after.
C1_IdempotentReindex ==
    [][\A p \in Procs, n \in Notes, t \in Texts :
          (UpsertBegin(p, n, t) /\ StoredHashIs(n, t))
              => /\ db' = db
                 /\ w'[p].pc = "done"
                 /\ w'[p].result = [indexed |-> FALSE, embedded |-> 0, totalChunks |-> 0]
                 /\ w'[p].sent = <<>> /\ w'[p].queue = <<>>]_vars

C1_Witness ==
    \E p \in Procs :
        /\ w[p].pc = "done" /\ ~w[p].result.indexed
        /\ StoredHashIs(w[p].noteId, w[p].text)
        /\ ChunkIdsOf(db, w[p].noteId) # {}
        /\ clock >= 2

\* C2: the metadata row of a note is written only by the last step of a call
\* for that note, when no chunk is left to embed and every chunk of the call
\* has its vector; a call that fails leaves the row as it was when the call
\* began.
C2_MetaAfterAllBatches ==
    [][/\ \A n \in Notes :
              (getNoteMeta(db', n) # getNoteMeta(db, n) /\ getNoteMeta(db', n) # <<>>)
                  => \E p \in Procs :
                        /\ w[p].pc = "putMeta" /\ w[p].noteId = n
                        /\ w[p].queue = <<>>
                        /\ IdsOf(w[p].rows) \subseteq DOMAIN db.vectors
                        /\ getNoteMeta(db', n)[1].noteHash = sha256Hex(w[p].text)
                        /\ getNoteMeta(db', n)[1].lastIndexedAt = clock
       /\ \A p \in Procs :
              (Running(p) /\ w'[p].pc = "failed")
                  => getNoteMeta(db', w[p].noteId) = w[p].metaBefore]_vars

\* An embedding batch failed after an earlier batch of the same call had been
\* stored, for a note indexed before with another text.
C2_Witness ==
    \E p \in Procs :
        /\ w[p].pc = "failed" /\ w[p].error = "ProviderFailure"
        /\ w[p].noteId \in DOMAIN db.notesMeta
        /\ ~StoredHashIs(w[p].noteId, w[p].text)
        /\ \E c \in IdsOf(BuildRows(w[p].noteId, w[p].text)) : c \notin DOMAIN db.vectors

\* C3: whenever no call is in flight, a stored noteHash equal to the hash of
\* a text T means the stored chunk rows of the note are the rows of chunking
\* T and each of them has a vector.
C3_HashIsSoundSignal ==
    NoCallInFlight =>
        \A n \in Notes, t \in Texts :
            StoredHashIs(n, t) =>
                /\ getChunksByNoteId(db, n) = RowSet(BuildRows(n, t))
                /\ IdsOf(BuildRows(n, t)) \subseteq DOMAIN db.vectors

\* C4: the chunks a call queues for embedding are exactly its chunks that
\* have no stored vector, and every chunk it sends to the provider is one
\* without a stored vector that it has not sent before.
C4_EmbedOnlyMissing ==
    [][\A p \in Procs :
          /\ (w[p].pc = "check" /\ w'[p].pc \in {"embed", "putMeta"})
                => { w[p].rows[i].chunkId : i \in RowSet(w'[p].queue) }
                       = { c \in IdsOf(w[p].rows) : c \notin DOMAIN db.vectors }
          /\ (w[p].pc = "embed" /\ w'[p].pc # "embed")
                => \A k \in 1..Len(w[p].queue) :
                      /\ w[p].rows[w[p].queue[k]].chunkId \notin DOMAIN db.vectors
                      /\ w[p].queue[k] \notin RowSet(w[p].sent)]_vars

\* A retry: the note has no metadata row, yet one of its chunks already has a
\* vector and is left out of the queue.
C4_Witness ==
    \E p \in Procs :
        /\ w[p].pc = "embed"
        /\ w[p].noteId \notin DOMAIN db.notesMeta
        /\ Len(w[p].queue) < Len(w[p].rows)
        /\ \E c \in IdsOf(w[p].rows) : c \in DOMAIN db.vectors

C7_NoOrphanVectors == DOMAIN db.vectors \subseteq DOMAIN db.chunks

\* C8: what a search has read is never a vector whose chunk row existed when
\* the vectors were read but is missing from the chunks it read, and never
\* holds new chunks of a running upsert together with chunks it removes.
C8_ReadersSeeAtomicReplace ==
    rd.pc = "read" =>
        /\ \A c \in DOMAIN rd.vectors :
               c \in rd.chunkIdsThen => c \in DOMAIN rd.chunks
        /\ \A p \in Procs :
               Running(p) /\ w[p].pc # "getOld" =>
                   ~ \E a \in IdsOf(w[p].rows) \ w[p].oldIds,
                        b \in w[p].oldIds \ IdsOf(w[p].rows) :
                            {a, b} \subseteq DOMAIN rd.chunks

\* C9: a write of the store takes effect in full and its promise resolves, or
\* it takes no effect at all and its promise rejects.
C9_WritesAreAllOrNothing ==
    [][/\ \A p \in Procs :
              LET failed == w'[p].pc = "failed"
                  stale  == w[p].oldIds \ IdsOf(w[p].rows)
              IN  /\ (w[p].pc \in {"delete", "put", "putVec", "putMeta"} /\ failed)
                        => db' = db
                  /\ (w[p].pc = "delete" /\ ~failed)
                        => /\ DOMAIN db'.chunks = DOMAIN db.chunks \ stale
                           /\ DOMAIN db'.vectors = DOMAIN db.vectors \ stale
                  /\ (w[p].pc = "put" /\ ~failed)
                        => \A r \in RowSet(w[p].rows) :
                               r.chunkId \in DOMAIN db'.chunks /\ db'.chunks[r.chunkId] = r
                  /\ (w[p].pc = "putVec" /\ ~failed)
                        => \A k \in 1..Len(w[p].batch) :
                               w[p].rows[w[p].batch[k]].chunkId \in DOMAIN db'.vectors
                  /\ (w[p].pc = "putMeta" /\ ~failed)
                        => StoredHashIs(w[p].noteId, w[p].text)'
       /\ \A n \in Notes, o \in TxOutcomes :
              LET r == deleteNote(db, n, o)
              IN  IF r.promise = "resolved"
                  THEN n \notin DOMAIN r.db.notesMeta /\ ChunkIdsOf(r.db, n) = {}
                  ELSE r.db = db]_vars

\* A write transaction aborted after rows of the note had been stored.
C9_Witness ==
    \E p \in Procs :
        /\ w[p].pc = "failed" /\ w[p].error = "StorageFailure"
        /\ ChunkIdsOf(db, w[p].noteId) # {}
        /\ w[p].noteId \in DOMAIN db.notesMeta

\* C10: a completed deleteNote(n) leaves no metadata row, no chunk row and
\* no vector row of n, and leaves the rows of every other note as they were.
C10_DeleteRemovesAllRows ==
    [][\A n \in Notes :
          DeleteNoteCall(n, "complete")
              => /\ n \notin DOMAIN db'.notesMeta
                 /\ ChunkIdsOf(db', n) = {}
                 /\ \A c \in DOMAIN db'.vectors : NoteOfId(c) # n
                 /\ \A m \in Notes \ {n} :
                        /\ getNoteMeta(db', m) = getNoteMeta(db, m)
                        /\ getChunksByNoteId(db', m) = getChunksByNoteId(db, m)
                        /\ \A c \in DOMAIN db.vectors :
                               NoteOfId(c) = m
                                   => c \in DOMAIN db'.vectors /\ db'.vectors[c] = db.vectors[c]]_vars

\* C11: a deleteNote call for a note with no metadata row and no chunk rows
\* leaves the store as it was and, when its transaction completes, resolves;
\* a second deleteNote call for the same note right after a resolved one
\* changes nothing.
C11_DeleteIsSafeAndIdempotent ==
    [][\A n \in Notes, o \in TxOutcomes :
          DeleteNoteAwaited(n, o)
              => /\ (getNoteMeta(db, n) = <<>> /\ getChunksByNoteId(db, n) = {})
                        => /\ db' = db
                           /\ o = "complete" => del'.promise = "resolved"
                 /\ (del.noteId = n /\ del.at = clock /\ del.promise = "resolved")
                        => db' = db]_vars

\* The note was never indexed (the only upsert so far was for another note,
\* whose rows are stored), and it has been deleted twice in a row.
C11_Witness ==
    /\ del.promise = "resolved" /\ del.again /\ ~del.indexedBefore
    /\ clock = 1 /\ w[SingleProc].noteId # del.noteId
    /\ w[SingleProc].pc = "done" /\ w[SingleProc].result.indexed
    /\ DOMAIN db.vectors # {}

\* Positions at which two chunkings of the same length differ in content.
ChangedPositions(oldRows, newRows) ==
    { i \in 1..Len(newRows) : oldRows[i].hash # newRows[i].hash }

\* Call p re-indexes a note whose stored hash is that of the text old, whose
\* stored chunk ids were those of old, and whose new text differs from old in
\* the content of exactly one chunk.
OneChunkEdit(p, old) ==
    LET o == BuildRows(w[p].noteId, old)
    IN  /\ w[p].pc \in {"delete", "put", "check", "embed", "putVec", "putMeta"}
        /\ w[p].metaBefore # <<>> /\ w[p].metaBefore[1].noteHash = sha256Hex(old)
        /\ w[p].oldIds = IdsOf(o)
        /\ Len(o) = Len(w[p].rows)
        /\ Cardinality(ChangedPositions(o, w[p].rows)) = 1

\* C12: when a fully indexed note is edited so that exactly one of its
\* chunks changes content, the next upsertNote call deletes exactly one chunk
\* row, of the old content of the changed chunk, together with its vector,
\* queues and sends exactly one chunk, of the new content, to the provider,
\* and leaves every other vector row of the note as it was.
C12_DiffCorrectness ==
    [][\A p \in Procs, old \in DiffTexts :
          OneChunkEdit(p, old) =>
            LET o     == BuildRows(w[p].noteId, old)
                i     == CHOOSE j \in ChangedPositions(o, w[p].rows) : TRUE
                stale == w[p].oldIds \ IdsOf(w[p].rows)
                kept  == w[p].oldIds \ stale
                goneC == DOMAIN db.chunks \ DOMAIN db'.chunks
                goneV == DOMAIN db.vectors \ DOMAIN db'.vectors
            IN  /\ (w[p].pc = "delete" /\ w'[p].pc = "put"
                        /\ w[p].oldIds \subseteq DOMAIN db.vectors)
                      => /\ Cardinality(goneC) = 1 /\ goneV = goneC
                         /\ \A c \in goneC : db.chunks[c].hash = o[i].hash
                /\ w[p].pc # "delete" => goneC = {} /\ goneV = {}
                /\ \A c \in kept \cap DOMAIN db.vectors :
                       c \in DOMAIN db'.vectors /\ db'.vectors[c] = db.vectors[c]
                /\ (w[p].pc = "check" /\ w'[p].pc # "check"
                        /\ kept \subseteq DOMAIN db.vectors)
                      => /\ Len(w'[p].queue) = 1
                         /\ w[p].rows[w'[p].queue[1]].hash = w[p].rows[i].hash
                /\ (w[p].pc = "embed" /\ w'[p].pc = "putVec"
                        /\ kept \subseteq DOMAIN db.vectors)
                      => /\ Len(w'[p].sent) = 1
                         /\ w[p].rows[w'[p].sent[1]].hash = w[p].rows[i].hash
                /\ (w[p].pc = "putVec" /\ kept \subseteq DOMAIN db.vectors)
                      => w'[p].pc \in {"putMeta", "failed"}]_vars

\* The call has deleted the stale row and its vector, sent one chunk and
\* stored its vector; the chunk it sent is not at the position whose content
\* changed (the edit made two chunks equal in content).
C12_Witness ==
    \E p \in Procs, old \in DiffTexts :
        /\ OneChunkEdit(p, old)
        /\ w[p].pc = "putMeta"
        /\ Len(w[p].sent) = 1
        /\ w[p].sent[1] \notin ChangedPositions(BuildRows(w[p].noteId, old), w[p].rows)
        /\ (w[p].oldIds \ IdsOf(w[p].rows)) \cap (DOMAIN db.chunks \cup DOMAIN db.vectors) = {}
        /\ IdsOf(w[p].rows) \subseteq DOMAIN db.vectors

ScoresNonIncreasing(res) ==
    \A i \in 1..(Len(res) - 1) : res[i].score >= res[i + 1].score

PosIn(seq, x) == CHOOSE i \in 1..Len(seq) : seq[i] = x

\* The score of a stored vector against a query vector.
ScoreOf(chunkId, q) == cosineSimilarityNormalized(q, db.vectors[chunkId].vector)

\* The first query of the finished search that gave the chunk its map entry.
FirstScoredBy(chunkId) ==
    CHOOSE qi \in 1..Len(sr.queries) :
        /\ PassesFilter(ScoreOf(chunkId, sr.queries[qi]), sr.minScore)
        /\ ScoreOf(chunkId, sr.queries[qi]) > 0
        /\ \A qj \in 1..(qi - 1) :
               ~(PassesFilter(ScoreOf(chunkId, sr.queries[qj]), sr.minScore)
                    /\ ScoreOf(chunkId, sr.queries[qj]) > 0)

\* C13 (as claimed): the scores of a search result are non-increasing by
\* position, and results of equal score are in the order in which their
\* vectors were stored.
C13_SortedTiesInInsertionOrder ==
    sr.pc = "done" =>
        /\ ScoresNonIncreasing(sr.result)
        /\ \A i, j \in 1..Len(sr.result) :
               (i < j /\ sr.result[i].score = sr.result[j].score)
                   => PosIn(putOrder, sr.result[i].chunkId)
                          < PosIn(putOrder, sr.result[j].chunkId)

\* C13 (amended): the scores of a search result are non-increasing by
\* position, and results of equal score are in the order in which the search
\* produced its candidates: ascending chunk id for vectorSearchTopK; for
\* searchMultipleQueries by the first query that scored the chunk, then
\* ascending chunk id.
C13_SortedTiesInKeyOrder ==
    sr.pc = "done" =>
        /\ ScoresNonIncreasing(sr.result)
        /\ \A i, j \in 1..Len(sr.result) :
               (i < j /\ sr.result[i].score = sr.result[j].score)
                   => LET a == sr.result[i].chunkId
                          b == sr.result[j].chunkId
                      IN  IF sr.fn = "vectorSearchTopK" THEN KeyLess(a, b)
                          ELSE \/ FirstScoredBy(a) < FirstScoredBy(b)
                               \/ FirstScoredBy(a) = FirstScoredBy(b) /\ KeyLess(a, b)

\* A result with two chunks of equal score whose vectors were stored in the
\* opposite order, below a chunk of higher score.
C13_Witness ==
    /\ sr.pc = "done" /\ Len(sr.result) = 3
    /\ sr.result[1].score > sr.result[2].score
    /\ sr.result[2].score = sr.result[3].score
    /\ PosIn(putOrder, sr.result[3].chunkId) < PosIn(putOrder, sr.result[2].chunkId)

\* Results of note n in a result sequence.
ResultsOfNote(res, n) == { i \in 1..Len(res) : res[i].noteId = n }

\* Chunk ids that have both a chunk row and a vector row.
StoredChunks == DOMAIN db.chunks \cap DOMAIN db.vectors

\* C14: in every result of vectorSearchTopK and of searchMultipleQueries no
\* note id occurs in more than maxPerNote results.
C14_PerNoteCap ==
    sr.pc = "done" =>
        \A n \in Notes : Cardinality(ResultsOfNote(sr.result, n)) <= sr.maxPerNote

\* The cap was what kept a chunk out: its note has maxPerNote results, the
\* chunk passes the filter for the first query, and a chunk of another note
\* with a lower score is in the result.
C14_Witness ==
    /\ sr.pc = "done" /\ sr.maxPerNote = 1 /\ Len(sr.result) = 2
    /\ \E c \in StoredChunks :
           /\ c \notin { sr.result[i].chunkId : i \in 1..Len(sr.result) }
           /\ db.chunks[c].noteId = sr.result[1].noteId
           /\ PassesFilter(ScoreOf(c, sr.queries[1]), sr.minScore)
           /\ ScoreOf(c, sr.queries[1]) > sr.result[2].score

\* C15: every result of vectorSearchTopK and of searchMultipleQueries has a
\* finite score that is at least minScore.
C15_FiniteAndAboveMinScore ==
    sr.pc = "done" =>
        \A i \in 1..Len(sr.result) :
            IsFinite(sr.result[i].score) /\ sr.result[i].score >= sr.minScore

\* A result was returned from a store that also holds a chunk whose score is
\* Infinity and a chunk whose score is finite and below minScore.
C15_Witness ==
    /\ sr.pc = "done" /\ Len(sr.result) >= 1 /\ sr.minScore > 0
    /\ \E c \in StoredChunks : ScoreOf(c, sr.queries[1]) = PosInf
    /\ \E c \in StoredChunks :
           IsFinite(ScoreOf(c, sr.queries[1])) /\ ScoreOf(c, sr.queries[1]) < sr.minScore

\* Chunk a is ranked before chunk b for query q: higher score, or the same
\* score and the smaller key.
RankedBefore(a, b, q) ==
    \/ ScoreOf(a, q) > ScoreOf(b, q)
    \/ ScoreOf(a, q) = ScoreOf(b, q) /\ KeyLess(a, b)

\* C16: vectorSearchTopK returns at most k results, and a stored chunk whose
\* score is finite and at least minScore is missing from the result only if k
\* results are ranked before it or maxPerNote results of its note are ranked
\* before it.
C16_GreedyMaximal ==
    (sr.pc = "done" /\ sr.fn = "vectorSearchTopK") =>
        LET q   == sr.queries[1]
            ids == { sr.result[i].chunkId : i \in 1..Len(sr.result) }
        IN  /\ Len(sr.result) <= sr.k
            /\ Cardinality(ids) = Len(sr.result)
            /\ \A c \in StoredChunks \ ids :
                   PassesFilter(ScoreOf(c, q), sr.minScore)
                       => \/ Cardinality({ a \in ids : RankedBefore(a, c, q) }) >= sr.k
                          \/ Cardinality({ a \in ids : /\ RankedBefore(a, c, q)
                                                        /\ db.chunks[a].noteId
                                                              = db.chunks[c].noteId })
                                 >= sr.maxPerNote

\* k = 2 and maxPerNote = 1: the second-ranked chunk was skipped for the cap
\* and the third-ranked chunk, of another note, took the second place.
C16_Witness ==
    /\ sr.pc = "done" /\ sr.fn = "vectorSearchTopK"
    /\ sr.k = 2 /\ sr.maxPerNote = 1 /\ Len(sr.result) = 2
    /\ \E c \in StoredChunks :
           /\ db.chunks[c].noteId = sr.result[1].noteId
           /\ RankedBefore(sr.result[1].chunkId, c, sr.queries[1])
           /\ RankedBefore(c, sr.result[2].chunkId, sr.queries[1])
           /\ IsFinite(ScoreOf(c, sr.queries[1]))

\* The scores of a stored vector against the queries of the finished search.
ScoresOf(chunkId) == { ScoreOf(chunkId, sr.queries[qi]) : qi \in 1..Len(sr.queries) }

\* Math.max of a non-empty set of scores, none of them NaN.
MaxOf(scores) == CHOOSE m \in scores : \A x \in scores : m >= x

\* C17: in a result of searchMultipleQueries the score of a chunk is the
\* maximum of its scores against all query vectors, and a stored chunk whose
\* maximum is finite and at least minScore is a candidate: it is missing
\* from the result only if the result is full (k results) or its note has
\* maxPerNote results.
C17_MultiQueryMaxScore ==
    (sr.pc = "done" /\ sr.fn = "searchMultipleQueries" /\ sr.queries # <<>>) =>
        LET ids == { sr.result[i].chunkId : i \in 1..Len(sr.result) }
        IN  /\ \A i \in 1..Len(sr.result) :
                   sr.result[i].score = MaxOf(ScoresOf(sr.result[i].chunkId))
            /\ \A c \in StoredChunks \ ids :
                   (NaN \notin ScoresOf(c) /\ IsFinite(MaxOf(ScoresOf(c)))
                        /\ MaxOf(ScoresOf(c)) >= sr.minScore)
                       => \/ Len(sr.result) >= sr.k
                          \/ Cardinality(ResultsOfNote(sr.result, db.chunks[c].noteId))
                                 >= sr.maxPerNote

\* C18: searchMultipleQueries called with the one-element list of a query
\* vector returns the sequence vectorSearchTopK returns for that vector and
\* the same k, minScore and maxPerNote.
C18_SingleQueryListSameAsTopK ==
    (sr.pc = "done" /\ sr.fn = "vectorSearchTopK") =>
        sr.result = searchMultipleQueries(db, sr.queries, sr.k, sr.minScore, sr.maxPerNote)

C20_ExtractionFailureIsSwallowed ==
    mh.extract \in {"nonOk", "networkError", "undecodable"} =>
        /\ mh.concepts = <<>> /\ ~mh.ranPass2
        /\ mh.pc \in {"chat", "done"} \/ (mh.pc = "failed" /\ mh.failedAt = "chat")
        /\ mh.merged = mh.pass1

\* C21: a failure of the answer generator ends the query with that error:
\* the step that fails leaves the call rejected by chat with one chat request
\* sent and no answer, no step of a query changes a store row, and a query
\* rejected by chat takes no further step.
C21_ChatFailureIsTerminal ==
    [][ /\ (mh'.failedAt = "chat" /\ mh.failedAt # "chat") =>
              /\ mh'.pc = "failed" /\ mh'.chatCalls = 1 /\ mh'.answer = <<>>
              /\ db' = db
        /\ mh.pc # "idle" => db' = db
        /\ (mh.pc = "failed" /\ mh.failedAt = "chat") => mh' = mh ]_vars

\* A multi-hop query on a store with rows was rejected by chat after handing
\* it contexts.
C21_Witness ==
    /\ mh.fn = "askWithMultiHop" /\ mh.pc = "failed" /\ mh.failedAt = "chat"
    /\ mh.chatCalls = 1 /\ mh.sent # <<>>
    /\ DOMAIN db.vectors # {}

\* C22: when concept extraction yields no concepts, the contexts a
\* multi-hop query hands to chat are the contexts askSimple hands to chat
\* for the same question on the same store: the same chunks in the same order.
C22_SimpleIsMultiHopWithoutExpansion ==
    (mh.fn = "askWithMultiHop" /\ mh.chatCalls = 1 /\ mh.concepts = <<>>) =>
        mh.sent = ContextsOf(SimpleRetrieved(db, mh.qVec))

\* C23: the usedChunkIds of a successful query are the chunk ids of the
\* final list whose contexts the query handed to chat, which are the ids of
\* the returned retrieved list, in the same order, whatever the generator cited.
C23_UsedChunkIdsAreTheContextIds ==
    mh.pc = "done" =>
        /\ mh.answer[1].usedChunkIds = [i \in 1..Len(mh.sent) |-> mh.sent[i].chunkId]
        /\ mh.answer[1].usedChunkIds
               = [i \in 1..Len(mh.retrieved) |-> mh.retrieved[i].chunkId]

StepsWithoutConcepts ==
    <<"embedOne", "vectorSearchTopK", "extractKeyConcepts", "mergeAndRerank", "chat">>

StepsWithConcepts ==
    <<"embedOne", "vectorSearchTopK", "extractKeyConcepts", "embedMany",
      "searchMultipleQueries", "mergeAndRerank", "chat">>

IsPrefix(s, t) == Len(s) <= Len(t) /\ SubSeq(t, 1, Len(s)) = s

\* C24: the steps a multi-hop query has taken are, in order and each once,
\* embed query, pass-1 search, concept extraction, then concept embedding
\* and pass-2 search if and only if concepts were returned, then merge and
\* re-rank, then one chat request; a query that has answered took them all,
\* and a query whose question embedding failed took no other step.
C24_StepOrder ==
    mh.fn = "askWithMultiHop" =>
        LET expected == IF mh.concepts # <<>> THEN StepsWithConcepts
                        ELSE StepsWithoutConcepts
        IN  /\ IsPrefix(mh.log, expected)
            /\ mh.ranPass2 <=> (mh.concepts # <<>> /\ Len(mh.log) >= 5)
            /\ mh.chatCalls = Cardinality({ i \in 1..Len(mh.log) : mh.log[i] = "chat" })
            /\ mh.pc = "done" => mh.log = expected
            /\ mh.failedAt = "embedOne" =>
                   /\ mh.log = <<"embedOne">> /\ mh.pc = "failed"
                   /\ mh.pass1 = <<>> /\ mh.sent = <<>>

\* A query with concepts has answered from a merged list that pass 2 added to.
C24_Witness ==
    /\ mh.fn = "askWithMultiHop" /\ mh.pc = "done"
    /\ mh.log = StepsWithConcepts
    /\ Len(mh.merged) > Len(mh.pass1) /\ mh.pass1 # <<>>

\* C25: once a multi-hop query has re-ranked, its final list is sorted by
\* score descending, holds the merged chunks up to the cut and never more,
\* the cut being above the k of either pass, and every merged chunk left out
\* scores no more than any chunk kept.
C25_FinalListIsTopN ==
    (mh.fn = "askWithMultiHop" /\ \E i \in 1..Len(mh.log) : mh.log[i] = "mergeAndRerank") =>
        /\ TopRetrieved > Pass1K /\ TopRetrieved > Pass2K
        /\ ScoresNonIncreasing(mh.top)
        /\ Len(mh.top) = Min(Len(mh.merged), TopRetrieved)
        /\ \A j \in 1..Len(mh.top) : \E i \in 1..Len(mh.merged) : mh.merged[i] = mh.top[j]
        /\ Cardinality(IdsIn(mh.top)) = Len(mh.top)
        /\ \A i \in 1..Len(mh.merged) :
               mh.merged[i].chunkId \notin IdsIn(mh.top) =>
                   \A j \in 1..Len(mh.top) : mh.merged[i].score <= mh.top[j].score

\* The merged list was longer than the cut, and pass 2 had ranked a chunk
\* above one of pass 1.
C25_Witness ==
    /\ mh.fn = "askWithMultiHop" /\ mh.pc = "chat"
    /\ Len(mh.merged) > TopRetrieved /\ Len(mh.top) = TopRetrieved
    /\ ~ScoresNonIncreasing(mh.merged)

\* C26: with maxChars > 0, no chunk of a chunkText call is longer than
\* maxChars characters.
C26_ChunkLengthBound ==
    ck.maxChars > 0 => \A i \in 1..Len(ck.chunks) : Len(ck.chunks[i]) <= ck.maxChars

\* A call returned several chunks, one as long as maxChars and one that
\* trimming made shorter than its window.
C26_Witness ==
    /\ ck.pc = "returned" /\ ck.maxChars > 0 /\ Len(ck.chunks) >= 2
    /\ \E i \in 1..Len(ck.chunks) : Len(ck.chunks[i]) = ck.maxChars
    /\ \E i \in 1..Len(ck.windows) :
           /\ ck.windows[i].end - ck.windows[i].start = ck.maxChars
           /\ ck.windows[i].slice # <<>>
           /\ Len(ck.windows[i].slice) < ck.maxChars

Suffix(s, n) == SubSeq(s, Len(s) - n + 1, Len(s))

Prefix(s, n) == SubSeq(s, 1, n)

\* C27 as stated: with 0 <= overlapChars < maxChars, the last overlapChars
\* characters of every returned chunk but the last two are the first
\* overlapChars characters of the chunk after it.
C27_ChunksOverlapExactly ==
    (ck.pc = "returned" /\ 0 <= ck.overlapChars /\ ck.overlapChars < ck.maxChars) =>
        \A i \in 1..(Len(ck.chunks) - 2) :
            /\ Len(ck.chunks[i]) >= ck.overlapChars
            /\ Len(ck.chunks[i + 1]) >= ck.overlapChars
            /\ Suffix(ck.chunks[i], ck.overlapChars) = Prefix(ck.chunks[i + 1], ck.overlapChars)

\* C27 amended: with 0 <= overlapChars < maxChars, every window but the last
\* is maxChars wide and the window after it starts overlapChars before its
\* end; the chunks are the trimmed windows, and where trimming removed
\* nothing from two consecutive windows the last overlapChars characters of
\* the first chunk are the first overlapChars characters of the second.
C27_WindowsOverlapExactly ==
    (0 <= ck.overlapChars /\ ck.overlapChars < ck.maxChars) =>
        \A i \in 1..(Len(ck.windows) - 1) :
            LET a == ck.windows[i]
                b == ck.windows[i + 1]
            IN  /\ a.end - a.start = ck.maxChars
                /\ b.start = a.end - ck.overlapChars
                /\ (Len(a.slice) = a.end - a.start /\ Len(b.slice) = b.end - b.start) =>
                       /\ Len(b.slice) >= ck.overlapChars
                       /\ Suffix(a.slice, ck.overlapChars) = Prefix(b.slice, ck.overlapChars)

\* A returned call with three windows or more and a positive overlap, two
\* consecutive windows left whole by trimming, the first holding two
\* different characters.
C27_Witness ==
    /\ ck.pc = "returned" /\ 0 < ck.overlapChars /\ ck.overlapChars < ck.maxChars
    /\ Len(ck.windows) >= 3
    /\ \E i \in 1..(Len(ck.windows) - 1) :
           /\ Len(ck.windows[i].slice) = ck.maxChars
           /\ Len(ck.windows[i + 1].slice) = ck.windows[i + 1].end - ck.windows[i + 1].start
           /\ ck.windows[i].slice[1] # ck.windows[i].slice[ck.maxChars]

\* C28: with maxChars > 0 and 0 <= overlapChars < maxChars, every character
\* position of the trimmed text lies in a window of the returned call, and
\* no window starts after the end of the window before it.
C28_WindowsCoverText ==
    (ck.pc = "returned" /\ ck.maxChars > 0
        /\ 0 <= ck.overlapChars /\ ck.overlapChars < ck.maxChars) =>
        /\ \A p \in 0..(Len(ck.cleaned) - 1) :
               \E i \in 1..Len(ck.windows) :
                   ck.windows[i].start <= p /\ p < ck.windows[i].end
        /\ \A i \in 1..(Len(ck.windows) - 1) :
               ck.windows[i + 1].start <= ck.windows[i].end

\* C29: with maxChars > 0 and overlapChars >= 0, every pass of the loop that
\* goes on to another moves the start forward, a call takes no more passes
\* than the trimmed text has characters, and the call returns with its last
\* window ending at the end of the trimmed text.
C29_TerminatesMovingForward ==
    [][ (ck.maxChars > 0 /\ ck.overlapChars >= 0 /\ ck.pc = "loop") =>
            /\ ck'.pc = "loop" => ck'.start > ck.start
            /\ Len(ck'.windows) <= Len(ck.cleaned)
            /\ ck'.pc = "returned" =>
                   /\ ck'.windows # <<>>
                   /\ ck'.windows[Len(ck'.windows)].end = Len(ck.cleaned) ]_vars

\* C30: a call with maxChars <= 0 on a non-empty text fails with InvalidInput
\* before taking a window or returning chunks.
C30_NonPositiveMaxCharsIsInvalidInput ==
    (ck.pc # "idle" /\ ck.maxChars <= 0 /\ ck.text # <<>>) =>
        /\ ck.pc = "failed"
        /\ ck.windows = <<>> /\ ck.chunks = <<>>

\* C31: with maxChars > 0 a returned call has no chunk exactly when the text
\* is empty or all whitespace; every chunk is non-empty and neither begins
\* nor ends with whitespace; the chunks are, in order, the trimmed slices of
\* the windows that are not all whitespace.
C31_EmptyIffBlankAndChunksTrimmed ==
    (ck.pc = "returned" /\ ck.maxChars > 0) =>
        /\ ck.chunks = <<>> <=> \A i \in 1..Len(ck.text) : ck.text[i] \in Whitespace
        /\ \A i \in 1..Len(ck.chunks) :
               /\ ck.chunks[i] # <<>>
               /\ ck.chunks[i][1] \notin Whitespace
               /\ ck.chunks[i][Len(ck.chunks[i])] \notin Whitespace
        /\ \A i \in 1..Len(ck.windows) :
               ck.windows[i].slice = <<>> <=>
                   \A p \in (ck.windows[i].start + 1)..ck.windows[i].end :
                       ck.cleaned[p] \in Whitespace
        /\ LET kept == SelectSeq(ck.windows, LAMBDA x : x.slice # <<>>)
           IN  ck.chunks = [i \in 1..Len(kept) |-> kept[i].slice]

\* A returned call dropped an all-whitespace window between two chunks that
\* trimming had shortened.
C31_Witness ==
    /\ ck.pc = "returned" /\ ck.maxChars > 0 /\ Len(ck.chunks) >= 2
    /\ \E i \in 1..Len(ck.windows) : ck.windows[i].slice = <<>>
    /\ \E i \in 1..Len(ck.windows) :
           /\ ck.windows[i].slice # <<>>
           /\ Len(ck.windows[i].slice) < ck.windows[i].end - ck.windows[i].start

\* C32: when an upsertNote call that indexed its note ends, the chunk ids
\* of its chunking pass are pairwise distinct, every chunk of the pass is
\* stored under its id as that pass made it, and the note has as many chunk
\* rows as the totalChunks the call reports.
C32_ChunkIdsCollisionSafe ==
    [][\A p \in Procs :
          (w[p].pc = "putMeta" /\ w'[p].pc = "done") =>
              LET rows == BuildRows(w[p].noteId, w[p].text)
              IN  /\ \A i, j \in 1..Len(rows) :
                         i # j => rows[i].chunkId # rows[j].chunkId
                  /\ \A i \in 1..Len(rows) :
                         /\ rows[i].chunkId \in DOMAIN db'.chunks
                         /\ db'.chunks[rows[i].chunkId] = rows[i]
                  /\ w'[p].result.totalChunks = Len(rows)
                  /\ Cardinality(getChunksByNoteId(db', w[p].noteId))
                         = w'[p].result.totalChunks]_vars

\* An upsertNote call indexed a note whose two chunks have the same content.
C32_Witness ==
    \E p \in Procs :
        /\ w[p].pc = "done" /\ w[p].result.indexed /\ w[p].result.totalChunks = 2
        /\ LET rows == BuildRows(w[p].noteId, w[p].text)
           IN  /\ Len(rows) = 2 /\ rows[1].chunkText = rows[2].chunkText
               /\ IdsOf(rows) \subseteq DOMAIN db.chunks
               /\ Cardinality(getChunksByNoteId(db, w[p].noteId)) = 2

\* C33: single writer.  At any time at most one index-mutating call
\* (upsertNote or deleteNote) of the page is in flight: no two upsertNote
\* calls are between their begin and their end at once, and handleDeleteNote
\* starts its delete only when no upsertNote call is in flight.
C33_SingleWriter ==
    [][/\ Cardinality({p \in Procs : Running(p)'}) <= 1
       /\ (pg'.deleted # pg.deleted => NoCallInFlight)]_vars

\* Nothing of the page's indexing is pending or in flight.
PageQuiet ==
    /\ \A n \in OneNote : pg.timers[n] = <<>>
    /\ \A p \in Procs : pg.owner[p] = "none" /\ ~Running(p)
    /\ ~pg.isIndexingAll

NoRowsOf(d, n) ==
    /\ n \notin DOMAIN d.notesMeta
    /\ ChunkIdsOf(d, n) = {}
    /\ \A c \in DOMAIN d.vectors : NoteOfId(c) # n

\* C34: a deleted note stays out of the index.  Once handleDeleteNote has
\* run for a note, its delete transaction has completed, and every pending
\* timer and every indexing call in flight has finished, the store holds no
\* metadata row, chunk row or vector row of the note.
C34_DeletedNoteStaysOut ==
    \A n \in pg.deleted \ pg.deleteRejected : PageQuiet => NoRowsOf(db, n)

\* C35: askClara retrieves only after a full indexing pass.  Whenever
\* askClara goes on to the retrieval call, the ensureAllIndexed pass it
\* awaited has gone through every note without an error and has ended,
\* and no ensureAllIndexed pass is in progress.
C35_AskAfterFullPass ==
    [][(pg.ask # "retrieving" /\ pg'.ask = "retrieving")
          => /\ pg.ask = "ensuring"
             /\ ~pg'.isIndexingAll
             /\ ~pg'.passFailed]_vars

\* The number of entries of a result or context list that belong to note n.
CountOfNote(list, n) == Cardinality({ i \in 1..Len(list) : list[i].noteId = n })

\* C36: the per-note cap holds for the final list of a multi-hop query: the
\* contexts it hands to chat hold no more chunks of any one note than the
\* maxPerNote both passes search with.
C36_FinalListKeepsPerNoteCap ==
    (mh.fn = "askWithMultiHop" /\ mh.chatCalls = 1) =>
        \A n \in Notes : CountOfNote(mh.sent, n) <= MultiHopMaxPerNote

NoChunkTwice(list) == Cardinality(IdsIn(list)) = Len(list)

\* C37: no list of a query holds a chunk id twice: the pass-1 results, the
\* pass-2 results, the merged list, the final list and the contexts handed
\* to chat, for askWithMultiHop and askSimple alike; and the merged list is
\* the pass-1 results followed by the pass-2 results whose chunk id pass 1
\* did not return.
C37_NoChunkTwice ==
    /\ NoChunkTwice(mh.pass1) /\ NoChunkTwice(mh.pass2)
    /\ NoChunkTwice(mh.merged) /\ NoChunkTwice(mh.top) /\ NoChunkTwice(mh.sent)
    /\ mh.ranPass2 =>
           mh.merged = mh.pass1 \o SelectSeq(mh.pass2,
                                             LAMBDA r : r.chunkId \notin IdsIn(mh.pass1))

\* Pass 2 returned a chunk pass 1 had returned and a chunk it had not, and
\* the list went to chat.
C37_Witness ==
    /\ mh.fn = "askWithMultiHop" /\ mh.ranPass2 /\ mh.chatCalls = 1
    /\ IdsIn(mh.pass1) \cap IdsIn(mh.pass2) # {}
    /\ IdsIn(mh.pass2) \ IdsIn(mh.pass1) # {}
    /\ Len(mh.sent) >= 3

InLog(step) == \E i \in 1..Len(mh.log) : mh.log[i] = step

\* C38: when concept extraction returns zero concepts, a multi-hop query
\* sends no concept-embedding request and runs no pass-2 search, and its
\* final list, the one whose contexts go to chat, is the pass-1 result list
\* in pass-1 order.
C38_ZeroConceptsKeepsPass1 ==
    (/\ mh.fn = "askWithMultiHop"
     /\ InLog("extractKeyConcepts") /\ mh.failedAt # "extractKeyConcepts"
     /\ mh.concepts = <<>>)
        => /\ ~InLog("embedMany") /\ ~InLog("searchMultipleQueries")
           /\ mh.conceptVecs = <<>> /\ mh.pass2 = <<>>
           /\ mh.top = mh.pass1
           /\ mh.chatCalls = 1 => mh.sent = ContextsOf(mh.pass1)

\* The extractor answered with an empty list, pass 1 had returned as many
\* chunks as its k allows, two of them with equal scores, and the list
\* went to chat.
C38_Witness ==
    /\ mh.fn = "askWithMultiHop" /\ mh.extract = "ok" /\ mh.concepts = <<>>
    /\ mh.pc = "done" /\ Len(mh.pass1) = Pass1K
    /\ mh.pass1[1].score = mh.pass1[2].score
    /\ [i \in 1..Len(mh.sent) |-> mh.sent[i].chunkId]
           = [i \in 1..Len(mh.pass1) |-> mh.pass1[i].chunkId]

\* C39: queries are read-only.  No step of askWithMultiHop (the body of ask
\* and askWithHistory) or of askSimple, with the vectorSearchTopK and
\* searchMultipleQueries calls they make, creates, changes or deletes a
\* metadata, chunk or vector row, whether the step succeeds or fails: the
\* store after the step is the store before it.
C39_QueriesAreReadOnly ==
    [][(mh' # mh) =>
          /\ db'.notesMeta = db.notesMeta
          /\ db'.chunks = db.chunks
          /\ db'.vectors = db.vectors]_vars

\* An askSimple query has searched a store with chunk and vector rows, found
\* chunks, and ended, answered or rejected.
C39_Witness ==
    /\ mh.fn = "askSimple" /\ mh.pc \in {"done", "failed"}
    /\ InLog("vectorSearchTopK") /\ mh.top # <<>>
    /\ DOMAIN db.chunks # {} /\ DOMAIN db.vectors # {}
====
